---- MODULE Spec2Model ----
(***************************************************************************)
(* A model of rmilter: the milter server side.  Bytes are naturals 0..255, *)
(* byte strings are sequences of bytes, and text (a Rust String) is a      *)
(* sequence of Unicode code points.                                         *)
(***************************************************************************)
EXTENDS Integers, Sequences, FiniteSets, TLC

(***************************************************************************)
(* Generic sequence helpers (slices as Rust writes them, 0-based, end      *)
(* exclusive).                                                              *)
(***************************************************************************)
Min(a, b) == IF a <= b THEN a ELSE b

\* s[from..to] of Rust for 0 <= from <= to <= s.len()
Slice(s, from, to) == SubSeq(s, from + 1, to)

\* s[from..]
SliceFrom(s, from) == SubSeq(s, from + 1, Len(s))

\* the 0-based index of the first element equal to b, or -1 (Rust: None)
Position(s, b) ==
    IF \E i \in 1..Len(s) : s[i] = b
    THEN (CHOOSE i \in 1..Len(s) : s[i] = b /\ \A j \in 1..(i - 1) : s[j] # b) - 1
    ELSE -1

\* does pat occur in s at 0-based offset i
MatchAt(s, pat, i) ==
    /\ i + Len(pat) <= Len(s)
    /\ \A k \in 1..Len(pat) : s[i + k] = pat[k]

\* str::find: the 0-based offset of the first occurrence of pat, or -1
Find(s, pat) ==
    IF \E i \in 0..Len(s) : MatchAt(s, pat, i)
    THEN CHOOSE i \in 0..Len(s) :
            MatchAt(s, pat, i) /\ \A j \in 0..(i - 1) : ~MatchAt(s, pat, j)
    ELSE -1

\* slice::split / str::split: the pieces between the occurrences of pat,
\* n occurrences giving n + 1 pieces (an empty input gives one empty piece)
RECURSIVE Split(_, _)
Split(s, pat) ==
    LET at == Find(s, pat)
    IN  IF at = -1 THEN <<s>>
        ELSE <<Slice(s, 0, at)>> \o Split(SliceFrom(s, at + Len(pat)), pat)

RECURSIVE Concat(_)
Concat(ss) == IF ss = <<>> THEN <<>> ELSE Head(ss) \o Concat(Tail(ss))

(***************************************************************************)
(* Fixed-width integers.                                                    *)
(***************************************************************************)
\* u32::from_be_bytes
U32FromBe(b) == b[1] * 16777216 + b[2] * 65536 + b[3] * 256 + b[4]

\* u32::to_be_bytes
U32ToBe(v) ==
    << (v \div 16777216) % 256, (v \div 65536) % 256, (v \div 256) % 256, v % 256 >>

\* u16::from_be_bytes
U16FromBe(b) == b[1] * 256 + b[2]

\* v & (1 << i) != 0
Bit(v, i) == (v \div (2 ^ i)) % 2 = 1

\* u32::from(bool) << i
Shl(flag, i) == IF flag THEN 2 ^ i ELSE 0

(***************************************************************************)
(* The ASCII letters the wire format and the header decoder name.           *)
(***************************************************************************)
Ch == [ NUL |-> 0, SP |-> 32, EQ |-> 61, QM |-> 63, US |-> 95,
        d4 |-> 52, d6 |-> 54,
        A |-> 65, B |-> 66, C |-> 67, D |-> 68, E |-> 69, H |-> 72,
        L |-> 76, M |-> 77, N |-> 78, O |-> 79, Q |-> 81, R |-> 82,
        a |-> 97, b |-> 98, c |-> 99, d |-> 100, q |-> 113, r |-> 114,
        t |-> 116 ]

(***************************************************************************)
(* String::from_utf8_lossy: UTF-8 decoding in which every maximal invalid  *)
(* prefix of a sequence becomes one U+FFFD.                                 *)
(***************************************************************************)
Replacement == 65533

IsCont(b) == b >= 128 /\ b <= 191

\* <<number of bytes consumed, code point>> at the head of the non-empty bs
Utf8Step(bs) ==
    LET b1 == bs[1]
        n  == Len(bs)
        b2 == IF n >= 2 THEN bs[2] ELSE 0
        b3 == IF n >= 3 THEN bs[3] ELSE 0
        b4 == IF n >= 4 THEN bs[4] ELSE 0
        ok2 == /\ n >= 2
               /\ IF b1 = 224 THEN b2 >= 160 /\ b2 <= 191
                  ELSE IF b1 = 237 THEN b2 >= 128 /\ b2 <= 159
                  ELSE IF b1 = 240 THEN b2 >= 144 /\ b2 <= 191
                  ELSE IF b1 = 244 THEN b2 >= 128 /\ b2 <= 143
                  ELSE IsCont(b2)
        ok3 == n >= 3 /\ IsCont(b3)
        ok4 == n >= 4 /\ IsCont(b4)
    IN  IF b1 < 128 THEN <<1, b1>>
        ELSE IF b1 >= 194 /\ b1 <= 223
        THEN IF ok2 THEN <<2, (b1 - 192) * 64 + (b2 - 128)>>
             ELSE <<1, Replacement>>
        ELSE IF b1 >= 224 /\ b1 <= 239
        THEN IF ~ok2 THEN <<1, Replacement>>
             ELSE IF ~ok3 THEN <<2, Replacement>>
             ELSE <<3, (b1 - 224) * 4096 + (b2 - 128) * 64 + (b3 - 128)>>
        ELSE IF b1 >= 240 /\ b1 <= 244
        THEN IF ~ok2 THEN <<1, Replacement>>
             ELSE IF ~ok3 THEN <<2, Replacement>>
             ELSE IF ~ok4 THEN <<3, Replacement>>
             ELSE <<4, (b1 - 240) * 262144 + (b2 - 128) * 4096
                        + (b3 - 128) * 64 + (b4 - 128)>>
        ELSE <<1, Replacement>>

RECURSIVE FromUtf8Lossy(_)
FromUtf8Lossy(bs) ==
    IF bs = <<>> THEN <<>>
    ELSE LET st == Utf8Step(bs)
         IN  <<st[2]>> \o FromUtf8Lossy(SliceFrom(bs, st[1]))

(***************************************************************************)
(* The header value decoder: decode() and the library calls it makes.       *)
(***************************************************************************)
\* str::as_bytes of one code point (UTF-8 encoding)
Utf8Char(cp) ==
    IF cp < 128 THEN <<cp>>
    ELSE IF cp < 2048 THEN <<192 + (cp \div 64), 128 + (cp % 64)>>
    ELSE IF cp < 65536
    THEN <<224 + (cp \div 4096), 128 + ((cp \div 64) % 64), 128 + (cp % 64)>>
    ELSE <<240 + (cp \div 262144), 128 + ((cp \div 4096) % 64),
           128 + ((cp \div 64) % 64), 128 + (cp % 64)>>

RECURSIVE AsBytes(_)
AsBytes(text) ==
    IF text = <<>> THEN <<>> ELSE Utf8Char(Head(text)) \o AsBytes(Tail(text))

\* ASCII lower-casing of a label, as the label lookup compares
AsciiLower(bs) == [i \in 1..Len(bs) |-> IF bs[i] >= 65 /\ bs[i] <= 90 THEN bs[i] + 32 ELSE bs[i]]

\* the labels of the lookup table the model knows: "utf-8", "utf8",
\* "latin1", "iso-8859-1", "us-ascii"
Utf8Labels == { <<117, 116, 102, 45, 56>>, <<117, 116, 102, 56>> }

Latin1Labels ==
    { <<108, 97, 116, 105, 110, 49>>,
      <<105, 115, 111, 45, 56, 56, 53, 57, 45, 49>>,
      <<117, 115, 45, 97, 115, 99, 105, 105>> }

\* Charset::for_label_no_replacement: "none" is Rust's None
ForLabel(label) ==
    LET l == AsciiLower(label)
    IN  IF l \in Utf8Labels THEN "UTF-8"
        ELSE IF l \in Latin1Labels THEN "windows-1252"
        ELSE "none"

\* the code points of the windows-1252 bytes 0x80..0x9F
Windows1252High ==
    << 8364, 129, 8218, 402, 8222, 8230, 8224, 8225, 710, 8240, 352, 8249, 338,
       141, 381, 143, 144, 8216, 8217, 8220, 8221, 8226, 8211, 8212, 732, 8482,
       353, 8250, 339, 157, 382, 376 >>

\* Charset::decode_without_bom_handling
CharsetDecode(charset, bs) ==
    IF charset = "UTF-8" THEN FromUtf8Lossy(bs)
    ELSE [i \in 1..Len(bs) |->
            IF bs[i] >= 128 /\ bs[i] <= 159 THEN Windows1252High[bs[i] - 127]
            ELSE bs[i]]

\* the value of a base64 symbol of the standard alphabet, or -1
B64Val(c) ==
    IF c >= 65 /\ c <= 90 THEN c - 65
    ELSE IF c >= 97 /\ c <= 122 THEN c - 71
    ELSE IF c >= 48 /\ c <= 57 THEN c + 4
    ELSE IF c = 43 THEN 62
    ELSE IF c = 47 THEN 63
    ELSE -1

RECURSIVE B64Groups(_)
B64Groups(vals) ==
    LET n  == Len(vals)
        o1 == (vals[1] * 4) + (vals[2] \div 16)
        o2 == ((vals[2] % 16) * 16) + (vals[3] \div 4)
        o3 == ((vals[3] % 4) * 64) + vals[4]
    IN  IF n = 0 THEN <<>>
        ELSE IF n = 2 THEN <<o1>>
        ELSE IF n = 3 THEN <<o1, o2>>
        ELSE <<o1, o2, o3>> \o B64Groups(SliceFrom(vals, 4))

\* base64::decode with the standard alphabet: [ok, bytes].  Padding, when
\* present, must complete the last quantum; trailing bits must be zero.
Base64Decode(bs) ==
    LET n    == Len(bs)
        pads == IF n >= 2 /\ bs[n] = 61 /\ bs[n - 1] = 61 THEN 2
                ELSE IF n >= 1 /\ bs[n] = 61 THEN 1 ELSE 0
        data == Slice(bs, 0, n - pads)
        vals == [i \in 1..Len(data) |-> B64Val(data[i])]
        m    == Len(data) % 4
        bad  == \/ \E i \in 1..Len(vals) : vals[i] = -1
                \/ m = 1
                \/ pads > 0 /\ n % 4 # 0
                \/ pads > 0 /\ m = 0
                \/ pads = 2 /\ m # 2
                \/ pads = 1 /\ m # 3
                \/ m = 2 /\ vals[Len(vals)] % 16 # 0
                \/ m = 3 /\ vals[Len(vals)] % 4 # 0
    IN  IF bad THEN [ok |-> FALSE, bytes |-> <<>>]
        ELSE [ok |-> TRUE, bytes |-> B64Groups(vals)]

\* char::to_digit(16), or -1
HexVal(c) ==
    IF c >= 48 /\ c <= 57 THEN c - 48
    ELSE IF c >= 65 /\ c <= 70 THEN c - 55
    ELSE IF c >= 97 /\ c <= 102 THEN c - 87
    ELSE -1

\* str::trim_end on the ASCII white space a filtered line can hold
RECURSIVE TrimEnd(_)
TrimEnd(bs) ==
    IF bs # <<>> /\ bs[Len(bs)] \in {9, 13, 32} THEN TrimEnd(Slice(bs, 0, Len(bs) - 1))
    ELSE bs

\* one line of quoted-printable in robust mode: [bytes, soft], soft being
\* a soft line break ("=" as the last byte) at its end
RECURSIVE QpLine(_)
QpLine(bs) ==
    IF bs = <<>> THEN [bytes |-> <<>>, soft |-> FALSE]
    ELSE IF bs[1] # 61
    THEN LET r == QpLine(Tail(bs)) IN [r EXCEPT !.bytes = <<bs[1]>> \o @]
    ELSE IF Len(bs) = 1 THEN [bytes |-> <<>>, soft |-> TRUE]
    ELSE IF Len(bs) = 2 THEN [bytes |-> bs, soft |-> FALSE]
    ELSE LET r == QpLine(SliceFrom(bs, 3))
         IN  IF HexVal(bs[2]) # -1 /\ HexVal(bs[3]) # -1
             THEN [r EXCEPT !.bytes = <<(HexVal(bs[2]) * 16) + HexVal(bs[3])>> \o @]
             ELSE [r EXCEPT !.bytes = Slice(bs, 0, 3) \o @]

\* str::lines: the lines of a text, a final line break giving no empty line
Lines(bs) ==
    LET raw  == Split(bs, <<10>>)
        kept == IF raw[Len(raw)] = <<>> THEN Slice(raw, 0, Len(raw) - 1) ELSE raw
    IN  [i \in 1..Len(kept) |->
            IF kept[i] # <<>> /\ kept[i][Len(kept[i])] = 13
            THEN Slice(kept[i], 0, Len(kept[i]) - 1) ELSE kept[i]]

RECURSIVE QpLines(_, _)
QpLines(ls, break) ==
    IF ls = <<>> THEN <<>>
    ELSE LET r == QpLine(TrimEnd(Head(ls)))
         IN  (IF break THEN <<13, 10>> ELSE <<>>)
             \o r.bytes \o QpLines(Tail(ls), ~r.soft)

\* quoted_printable::decode(.., ParseMode::Robust): bytes outside the
\* printable set are dropped, malformed escapes are kept literally, and the
\* call never fails
QpDecode(bs) ==
    LET filtered == SelectSeq(bs, LAMBDA c : c \in {9, 10, 13} \/ (c >= 32 /\ c <= 126))
    IN  [ok |-> TRUE, bytes |-> QpLines(Lines(filtered), FALSE)]

\* str::replace("_", " ")
ReplaceUnderscore(text) == [i \in 1..Len(text) |-> IF text[i] = Ch.US THEN Ch.SP ELSE text[i]]

\* the text decode() appends for one piece of s.split("=?")
DecodePiece(split) ==
    LET encoded_end == Find(split, <<Ch.QM, Ch.EQ>>)
        encoded     == Slice(split, 0, encoded_end)
        parts       == Split(encoded, <<Ch.QM>>)
        charset     == ForLabel(AsBytes(parts[1]))
        transfer_encoding == parts[2]
        encoded_value     == parts[3]
        b64 == Base64Decode(AsBytes(encoded_value))
        qp  == QpDecode(AsBytes(ReplaceUnderscore(encoded_value)))
        decoded ==
            IF transfer_encoding \in {<<Ch.b>>, <<Ch.B>>}
            THEN IF b64.ok THEN b64.bytes ELSE AsBytes(encoded)
            ELSE IF transfer_encoding \in {<<Ch.q>>, <<Ch.Q>>}
            THEN IF qp.ok THEN qp.bytes ELSE AsBytes(encoded)
            ELSE AsBytes(encoded_value)
        word == IF Len(parts) = 3
                THEN IF charset # "none" THEN CharsetDecode(charset, decoded)
                     ELSE split
                ELSE <<>>
        rest == IF encoded_end + 2 < Len(split) THEN SliceFrom(split, encoded_end + 2)
                ELSE <<>>
    IN  IF encoded_end # -1 THEN word \o rest ELSE split

decode(s) ==
    LET pieces == Split(s, <<Ch.EQ, Ch.QM>>)
    IN  Concat([i \in 1..Len(pieces) |-> DecodePiece(pieces[i])])

(***************************************************************************)
(* The bit sets of the option negotiation.                                  *)
(***************************************************************************)
\* a conversion that reads add_recipients and remove_recipients from each
\* other's bit
MilterActionsFromSwapped(val) ==
    LET v == U32FromBe(val)
    IN  [ add_headers       |-> Bit(v, 0),
          change_body       |-> Bit(v, 1),
          add_recipients    |-> Bit(v, 3),
          remove_recipients |-> Bit(v, 2),
          change_headers    |-> Bit(v, 4),
          quarantine        |-> Bit(v, 5) ]

\* impl From<&[u8; 4]> for MilterActions
MilterActionsFrom(val) ==
    LET v == U32FromBe(val)
    IN  [ add_headers       |-> Bit(v, 0),
          change_body       |-> Bit(v, 1),
          add_recipients    |-> Bit(v, 2),
          remove_recipients |-> Bit(v, 3),
          change_headers    |-> Bit(v, 4),
          quarantine        |-> Bit(v, 5) ]

\* impl From<MilterActions> for Vec<u8>
MilterActionsInto(m) ==
    U32ToBe(Shl(m.add_headers, 0) + Shl(m.change_body, 1) + Shl(m.add_recipients, 2)
            + Shl(m.remove_recipients, 3) + Shl(m.change_headers, 4)
            + Shl(m.quarantine, 5))

\* impl From<&[u8; 4]> for MilterProtocol
MilterProtocolFrom(val) ==
    LET v == U32FromBe(val)
    IN  [ no_connect   |-> Bit(v, 0),
          no_helo      |-> Bit(v, 1),
          no_mail      |-> Bit(v, 2),
          no_recipient |-> Bit(v, 3),
          no_body      |-> Bit(v, 4),
          no_header    |-> Bit(v, 5),
          no_eoh       |-> Bit(v, 6) ]

\* impl From<MilterProtocol> for Vec<u8>
MilterProtocolInto(m) ==
    U32ToBe(Shl(m.no_connect, 0) + Shl(m.no_helo, 1) + Shl(m.no_mail, 2)
            + Shl(m.no_recipient, 3) + Shl(m.no_body, 4) + Shl(m.no_header, 5)
            + Shl(m.no_eoh, 6))

\* MilterProtocol::new
MilterProtocolNew(no_connect, no_helo, no_mail, no_recipient, no_body, no_header, no_eoh) ==
    [ no_connect   |-> no_connect,
      no_helo      |-> no_helo,
      no_mail      |-> no_mail,
      no_recipient |-> no_recipient,
      no_body      |-> no_body,
      no_header    |-> no_header,
      no_eoh       |-> no_eoh ]

\* MilterProtocol::default(): every flag false (no step skipped)
MilterProtocolDefault == MilterProtocolNew(FALSE, FALSE, FALSE, FALSE, FALSE, FALSE, FALSE)

(***************************************************************************)
(* MilterMessage::try_from.  The result is Ok(message), Err(error) or a     *)
(* panic (an out-of-range slice or an underflowing subtraction aborts the   *)
(* call instead of returning).                                              *)
(***************************************************************************)
Ok(m) == [res |-> "Ok", message |-> m]

Err(e) == [res |-> "Err", error |-> e]

Panic == [res |-> "Panic"]

IncompleteMessage == [kind |-> "IncompleteMessage"]

MissingMessageIdentifier == [kind |-> "MissingMessageIdentifier"]

\* an error that does not keep the byte it was made for
UnknowMessageIdentifierLost(c) == [kind |-> "UnknowMessageIdentifier", identifier |-> 0]

UnknowMessageIdentifier(c) == [kind |-> "UnknowMessageIdentifier", identifier |-> c]

\* [b'C', rest @ ..]
ConnectionInformationFrom(rest) ==
    LET hostname_end == Position(rest, Ch.NUL)
        hostname == FromUtf8Lossy(Slice(rest, 0, hostname_end))
        fam      == rest[hostname_end + 2]
        family   == IF fam = Ch.L THEN "UnixSocket"
                    ELSE IF fam = Ch.d4 THEN "Inet4" ELSE "Inet6"
        port     == U16FromBe(Slice(rest, hostname_end + 2, hostname_end + 4))
        address  == FromUtf8Lossy(Slice(rest, hostname_end + 4, Len(rest) - 1))
    IN  IF hostname_end = -1 THEN Err(IncompleteMessage)
        ELSE IF hostname_end + 1 >= Len(rest) THEN Err(IncompleteMessage)
        ELSE IF fam \notin {Ch.L, Ch.d4, Ch.d6} THEN Err(IncompleteMessage)
        \* rest[hostname_end + 2..=hostname_end + 3]
        ELSE IF hostname_end + 4 > Len(rest) THEN Panic
        \* rest[hostname_end + 4..rest.len() - 1]
        ELSE IF hostname_end + 4 > Len(rest) - 1 THEN Panic
        ELSE Ok([ kind     |-> "ConnectionInformation",
                  hostname |-> hostname,
                  family   |-> family,
                  port     |-> port,
                  address  |-> address ])

\* an arm that does not compare the number of names with the number of values
DefineMacrosFromUnchecked(cmdcode, rest) ==
    LET buf    == Split(Slice(rest, 0, Len(rest) - 1), <<Ch.NUL>>)
        n      == Len(buf)
        names  == [k \in 1..((n + 1) \div 2) |-> <<2 * (k - 1), buf[(2 * k) - 1]>>]
        values == [k \in 1..(n \div 2) |-> <<(2 * k) - 1, buf[2 * k]>>]
        found  == SelectSeq(names, LAMBDA e : e[1] < Len(values))
        macros == [k \in 1..Len(found) |->
                     [ name  |-> FromUtf8Lossy(found[k][2]),
                       value |-> FromUtf8Lossy(values[found[k][1] + 1][2]) ]]
    IN  IF rest # <<>>
        THEN Ok([kind |-> "DefineMacros", cmdcode |-> cmdcode, macros |-> macros])
        ELSE Ok([kind |-> "DefineMacros", cmdcode |-> cmdcode, macros |-> <<>>])

\* [b'D', cmdcode, rest @ ..]
DefineMacrosFrom(cmdcode, rest) ==
    LET buf    == Split(Slice(rest, 0, Len(rest) - 1), <<Ch.NUL>>)
        n      == Len(buf)
        \* buf.enumerate().partition(|(i, _)| i % 2 == 0)
        names  == [k \in 1..((n + 1) \div 2) |-> <<2 * (k - 1), buf[(2 * k) - 1]>>]
        values == [k \in 1..(n \div 2) |-> <<(2 * k) - 1, buf[2 * k]>>]
        \* for (i, name) in names { if let Some((_, value)) = values.get(i) .. }
        found  == SelectSeq(names, LAMBDA e : e[1] < Len(values))
        macros == [k \in 1..Len(found) |->
                     [ name  |-> FromUtf8Lossy(found[k][2]),
                       value |-> FromUtf8Lossy(values[found[k][1] + 1][2]) ]]
    IN  IF rest # <<>>
        THEN IF Len(names) # Len(values) THEN Err(IncompleteMessage)
             ELSE Ok([kind |-> "DefineMacros", cmdcode |-> cmdcode, macros |-> macros])
        ELSE Ok([kind |-> "DefineMacros", cmdcode |-> cmdcode, macros |-> <<>>])

\* [b'L', rest @ ..]
HeaderFrom(rest) ==
    LET buf == Split(rest, <<Ch.NUL>>)
    IN  IF Len(buf) < 2 THEN Err(IncompleteMessage)
        ELSE Ok([ kind  |-> "Header",
                  name  |-> FromUtf8Lossy(buf[1]),
                  value |-> decode(FromUtf8Lossy(buf[2])) ])

\* [b'M', rest @ ..] and [b'R', rest @ ..]: the first field, then the rest
ArgsFrom(rest) ==
    LET buf == Split(rest, <<Ch.NUL>>)
    IN  [ first |-> FromUtf8Lossy(buf[1]),
          args  |-> [k \in 1..(Len(buf) - 1) |-> FromUtf8Lossy(buf[k + 1])] ]

\* a decoder whose OptionNegotiation arm takes the first 12 bytes of a longer
\* payload too
try_from_any_length(value) ==
    LET rest == Tail(value)
    IN  IF value = <<Ch.A>> THEN Ok([kind |-> "AbortFilterChecks"])
        ELSE IF value # <<>> /\ value[1] = Ch.B
        THEN Ok([kind |-> "BodyChunk", value |-> FromUtf8Lossy(rest)])
        ELSE IF value # <<>> /\ value[1] = Ch.C THEN ConnectionInformationFrom(rest)
        ELSE IF Len(value) >= 2 /\ value[1] = Ch.D
        THEN DefineMacrosFrom(value[2], SliceFrom(value, 2))
        ELSE IF value = <<Ch.E>> THEN Ok([kind |-> "EndOfBody"])
        ELSE IF value # <<>> /\ value[1] = Ch.H
        THEN IF rest = <<>> THEN Panic
             ELSE Ok([kind |-> "Helo", msg |-> FromUtf8Lossy(Slice(rest, 0, Len(rest) - 1))])
        ELSE IF value # <<>> /\ value[1] = Ch.L THEN HeaderFrom(rest)
        ELSE IF value # <<>> /\ value[1] = Ch.M
        THEN Ok([ kind   |-> "MailFrom",
                  sender |-> ArgsFrom(rest).first,
                  args   |-> ArgsFrom(rest).args ])
        ELSE IF value = <<Ch.N>> THEN Ok([kind |-> "EndOfHeader"])
        ELSE IF value # <<>> /\ value[1] = Ch.O /\ Len(rest) >= 12
        THEN Ok([ kind     |-> "OptionNegotiation",
                  version  |-> U32FromBe(Slice(rest, 0, 4)),
                  actions  |-> MilterActionsFrom(Slice(rest, 4, 8)),
                  protocol |-> MilterProtocolFrom(Slice(rest, 8, 12)) ])
        ELSE IF value = <<Ch.Q>> THEN Ok([kind |-> "QuitCommunication"])
        ELSE IF value # <<>> /\ value[1] = Ch.R
        THEN Ok([ kind      |-> "RecipientInformation",
                  recipient |-> ArgsFrom(rest).first,
                  args      |-> ArgsFrom(rest).args ])
        ELSE IF value # <<>> THEN Err(UnknowMessageIdentifier(value[1]))
        ELSE Err(MissingMessageIdentifier)

try_from(value) ==
    LET rest == Tail(value)
    IN  IF value = <<Ch.A>> THEN Ok([kind |-> "AbortFilterChecks"])
        ELSE IF value # <<>> /\ value[1] = Ch.B
        THEN Ok([kind |-> "BodyChunk", value |-> FromUtf8Lossy(rest)])
        ELSE IF value # <<>> /\ value[1] = Ch.C THEN ConnectionInformationFrom(rest)
        ELSE IF Len(value) >= 2 /\ value[1] = Ch.D
        THEN DefineMacrosFrom(value[2], SliceFrom(value, 2))
        ELSE IF value = <<Ch.E>> THEN Ok([kind |-> "EndOfBody"])
        ELSE IF value # <<>> /\ value[1] = Ch.H
        \* &rest[..rest.len() - 1]
        THEN IF rest = <<>> THEN Panic
             ELSE Ok([kind |-> "Helo", msg |-> FromUtf8Lossy(Slice(rest, 0, Len(rest) - 1))])
        ELSE IF value # <<>> /\ value[1] = Ch.L THEN HeaderFrom(rest)
        ELSE IF value # <<>> /\ value[1] = Ch.M
        THEN Ok([ kind   |-> "MailFrom",
                  sender |-> ArgsFrom(rest).first,
                  args   |-> ArgsFrom(rest).args ])
        ELSE IF value = <<Ch.N>> THEN Ok([kind |-> "EndOfHeader"])
        ELSE IF value # <<>> /\ value[1] = Ch.O /\ Len(rest) = 12
        THEN Ok([ kind     |-> "OptionNegotiation",
                  version  |-> U32FromBe(Slice(rest, 0, 4)),
                  actions  |-> MilterActionsFrom(Slice(rest, 4, 8)),
                  protocol |-> MilterProtocolFrom(Slice(rest, 8, 12)) ])
        ELSE IF value = <<Ch.Q>> THEN Ok([kind |-> "QuitCommunication"])
        ELSE IF value # <<>> /\ value[1] = Ch.R
        THEN Ok([ kind      |-> "RecipientInformation",
                  recipient |-> ArgsFrom(rest).first,
                  args      |-> ArgsFrom(rest).args ])
        ELSE IF value # <<>> THEN Err(UnknowMessageIdentifier(value[1]))
        ELSE Err(MissingMessageIdentifier)

(***************************************************************************)
(* Responses.                                                               *)
(***************************************************************************)
AcceptRejectAction == {"Accept", "Continue", "Discard", "Reject", "Tempfail"}

\* a conversion that gives Discard the tag of Reject
ResponseFromActionMixed(action) ==
    U32ToBe(1) \o << CASE action = "Accept"   -> Ch.a
                       [] action = "Continue" -> Ch.c
                       [] action = "Discard"  -> Ch.r
                       [] action = "Reject"   -> Ch.r
                       [] action = "Tempfail" -> Ch.t >>

\* impl From<AcceptRejectAction> for ResponseMessage (its content)
ResponseFromAction(action) ==
    U32ToBe(1) \o << CASE action = "Accept"   -> Ch.a
                       [] action = "Continue" -> Ch.c
                       [] action = "Discard"  -> Ch.d
                       [] action = "Reject"   -> Ch.r
                       [] action = "Tempfail" -> Ch.t >>

\* ResponseMessage::option_negotiation (its content)
\* a reply that carries no action bit, whatever was proposed
option_negotiation_without_actions(version, actions, protocol) ==
    U32ToBe(13) \o <<Ch.O>> \o U32ToBe(version)
        \o U32ToBe(0) \o MilterProtocolInto(protocol)

\* a reply that leaves the step-skip field out
option_negotiation_without_protocol(version, actions, protocol) ==
    U32ToBe(9) \o <<Ch.O>> \o U32ToBe(version) \o MilterActionsInto(actions)

option_negotiation(version, actions, protocol) ==
    U32ToBe(13) \o <<Ch.O>> \o U32ToBe(version)
        \o MilterActionsInto(actions) \o MilterProtocolInto(protocol)

\* the reply of handle_message to a payload that does not decode
FallbackResponse == U32ToBe(1) \o <<Ch.c>>

(***************************************************************************)
(* The inputs of the model: the frames a peer sends, the handler the        *)
(* application supplies and the protocol it configures.                     *)
(***************************************************************************)
\* the most frames the peers send during one run, over all connections
MaxFrames == 2

\* the most connections the listener hands out during one run
MaxConns == 2

\* the size of the read buffer of handle_stream
BufferSize == 128

\* the size of the length prefix, std::mem::size_of::<u32>()
u32_size == 4

\* the payloads the peers choose from
AbortPayload     == <<Ch.A>>
BodyPayload      == <<Ch.B, 120>>
ConnPayload      == <<Ch.C, 104, 0, Ch.d4, 0, 25, 49, 0>>
ConnNoNulPayload == <<Ch.C, 104>>
ConnCutPayload   == <<Ch.C, 104, 0, Ch.d4>>
MacrosPayload    == <<Ch.D, Ch.C>>
EndBodyPayload   == <<Ch.E>>
HeloPayload      == <<Ch.H, 104, 0>>
HeloBarePayload  == <<Ch.H>>
HeaderPayload    == <<Ch.L, 110, 0, 118, 0>>
MailPayload      == <<Ch.M, 115, 0>>
EndHeaderPayload == <<Ch.N>>
OptNegPayload(actions) == <<Ch.O>> \o U32ToBe(2) \o U32ToBe(actions) \o U32ToBe(127)
QuitPayload      == <<Ch.Q>>
RcptPayload      == <<Ch.R, 114, 0>>
UnknownPayload   == <<90>>
EmptyPayload     == <<>>

\* the action bits the peers propose: all six, the lowest, the lowest with
\* an undefined higher bit
ProposedActions == {63, 1, 257}

\* the vocabularies the peers speak, a connection's frames being drawn from
\* one of them: the envelope of a session, the parts of a message, frames
\* that do not decode beside one that does, and the negotiation proposals
EnvelopeFrames ==
    { OptNegPayload(63), ConnPayload, HeloPayload, MailPayload, RcptPayload, QuitPayload }

MessageFrames ==
    { HeaderPayload, EndHeaderPayload, BodyPayload, EndBodyPayload, MacrosPayload,
      AbortPayload, QuitPayload }

MalformedFrames ==
    { EmptyPayload, UnknownPayload, ConnNoNulPayload, ConnCutPayload, HeloBarePayload,
      HeloPayload, QuitPayload }

NegotiationFrames == { OptNegPayload(a) : a \in ProposedActions } \cup { HeloPayload }

Vocabularies == { EnvelopeFrames, MessageFrames, MalformedFrames, NegotiationFrames }

Payloads == UNION Vocabularies

\* a frame on the wire: the big-endian length of the payload, then the payload
Frame(payload) == U32ToBe(Len(payload)) \o payload

BoundedSeq(S, n) == UNION { [1..k -> S] : k \in 0..n }

\* the methods of the MessageHandler trait that return an action
ActionMethods ==
    { "body_chunk", "connection", "end_of_body", "end_of_header", "header",
      "helo", "mail_from", "recipient" }

\* the handlers the application may supply: the trait's default methods, and
\* one that answers with every action
DefaultHandler == [m \in ActionMethods |-> "Continue"]

VariedHandler ==
    [ body_chunk |-> "Accept", connection |-> "Continue", end_of_body |-> "Discard",
      end_of_header |-> "Reject", header |-> "Tempfail", helo |-> "Accept",
      mail_from |-> "Reject", recipient |-> "Tempfail" ]

\* Option<MilterProtocol>
None == [some |-> FALSE]

Some(v) == [some |-> TRUE, value |-> v]

\* what the application builds: MilterBuilder::new(handler).build() with
\* the trait's default methods, and
\* MilterBuilder::new(handler).set_protocol(p).build() with its own handler
\* and the steps helo and body skipped
Builds ==
    { [handler |-> DefaultHandler, protocol |-> None],
      [handler |-> VariedHandler,
       protocol |-> Some(MilterProtocolNew(FALSE, TRUE, FALSE, FALSE, TRUE, FALSE, FALSE))] }

(***************************************************************************)
(* The state.                                                               *)
(***************************************************************************)
VARIABLES
    message_handler,  \* Milter.message_handler: the action each method returns
    protocol,         \* Milter.protocol
    pc,               \* where run is: "bind", "accept", "read", "dispatch",
                      \* "returned", "panicked"
    run_result,       \* what run returned: "running" until it returns
    conn,             \* the number of connections accepted so far
    budget,           \* the frames the peers may still send
    sent,             \* the payloads the peer of this connection sends
    wire,             \* the bytes of them handle_stream has not read yet
    collected_bytes,  \* handle_stream's accumulation buffer
    msg_len,          \* handle_stream's msg_len while the frame loop runs
    events,           \* this connection's dispatches, handler calls and writes
    stream_result,    \* what the last handle_stream returned
    last_end,         \* why the last handle_stream ended
    dropped_frames,   \* the whole frames its buffer held when it returned
    input,            \* a call of one function on its own: the function and
                      \* its arguments
    output            \* what that call returned

vars ==
    << message_handler, protocol, pc, run_result, conn, budget, sent, wire,
       collected_bytes, msg_len, events, stream_result, last_end, dropped_frames,
       input, output >>

\* no function is called on its own while run serves connections
NoCall == [fn |-> "none"]

DispatchEvent(payload) == [type |-> "dispatch", data |-> payload]

CallEvent(method, args) == [type |-> "call", data |-> [method |-> method, args |-> args]]

\* a write_all on the stream, and whether it (and the flush) succeeded
WriteEvent(bytes, ok) == [type |-> "write", data |-> bytes, ok |-> ok]

(***************************************************************************)
(* Milter::send_response and Milter::handle_message.  write_ok is the       *)
(* outcome of the write on the stream; the result is what the call returns  *)
(* ("Ok(true)", "Ok(false)", "Err", or "Panic" when decoding aborts) and    *)
(* the events it caused.                                                    *)
(***************************************************************************)
send_response(content, write_ok) ==
    [ret |-> IF write_ok THEN "Ok" ELSE "Err", log |-> <<WriteEvent(content, write_ok)>>]

\* an action sent without calling the handler method (the default, Continue)
RespondUncalled(handler, method, args, write_ok) ==
    LET sr == send_response(ResponseFromAction("Continue"), write_ok)
    IN  [ret |-> IF sr.ret = "Ok" THEN "Ok(true)" ELSE "Err", log |-> sr.log]

\* a handler method whose action is sent twice
RespondTwice(handler, method, args, write_ok) ==
    LET sr == send_response(ResponseFromAction(handler[method]), write_ok)
    IN  [ ret |-> IF sr.ret = "Ok" THEN "Ok(true)" ELSE "Err",
          log |-> <<CallEvent(method, args)>> \o sr.log \o sr.log ]

\* a handler method that returns an action, then send_response
Respond(handler, method, args, write_ok) ==
    LET sr == send_response(ResponseFromAction(handler[method]), write_ok)
    IN  [ ret |-> IF sr.ret = "Ok" THEN "Ok(true)" ELSE "Err",
          log |-> <<CallEvent(method, args)>> \o sr.log ]

\* a handler method that returns nothing, answered with Continue all the same
NotifyAnswered(method, args) ==
    [ ret |-> "Ok(true)",
      log |-> <<CallEvent(method, args), WriteEvent(U32ToBe(1) \o <<Ch.c>>, TRUE)>> ]

\* a handler method that returns nothing: no response is sent
Notify(method, args) == [ret |-> "Ok(true)", log |-> <<CallEvent(method, args)>>]

\* an OptionNegotiation arm that answers with the protocol the MTA proposed
NegotiateProposed(proto, m, write_ok) ==
    LET sr == send_response(option_negotiation(m.version, m.actions, m.protocol), write_ok)
    IN  [ret |-> IF sr.ret = "Ok" THEN "Ok(true)" ELSE "Err", log |-> sr.log]

\* the OptionNegotiation arm: the reply is built and sent, no handler is called
Negotiate(proto, m, write_ok) ==
    LET sr == send_response(
                option_negotiation(
                    m.version, m.actions,
                    IF proto.some THEN proto.value ELSE MilterProtocolDefault),
                write_ok)
    IN  [ret |-> IF sr.ret = "Ok" THEN "Ok(true)" ELSE "Err", log |-> sr.log]

\* a QuitCommunication arm that leaves keep_open as it is
QuitArmKeepsOpen == [ret |-> "Ok(true)", log |-> <<>>]

\* the QuitCommunication arm: keep_open = false, nothing is sent
QuitArm == [ret |-> "Ok(false)", log |-> <<>>]

\* an Err arm that drops the result of the write
FallbackIgnoresFailure(write_ok) ==
    [ret |-> "Ok(true)", log |-> <<WriteEvent(U32ToBe(1) \o <<Ch.c>>, write_ok)>>]

\* an Err arm that sets keep_open to false after its write
FallbackCloses(write_ok) ==
    [ ret |-> IF write_ok THEN "Ok(false)" ELSE "Err",
      log |-> <<WriteEvent(FallbackResponse, write_ok)>> ]

\* the Err arm: the Continue frame is written with write_all
Fallback(write_ok) ==
    [ ret |-> IF write_ok THEN "Ok(true)" ELSE "Err",
      log |-> <<WriteEvent(FallbackResponse, write_ok)>> ]

\* the Ok(..) arms of the match in handle_message
MatchMessage(handler, proto, m, write_ok) ==
    CASE m.kind = "AbortFilterChecks" ->
           Notify("abort_filter_checks", <<>>)
      [] m.kind = "BodyChunk" ->
           Respond(handler, "body_chunk", <<m.value>>, write_ok)
      [] m.kind = "ConnectionInformation" ->
           Respond(handler, "connection",
                   <<m.hostname, m.family, m.port, m.address>>, write_ok)
      [] m.kind = "DefineMacros" ->
           Notify("define_macros", <<m.cmdcode, m.macros>>)
      [] m.kind = "EndOfBody" -> Respond(handler, "end_of_body", <<>>, write_ok)
      [] m.kind = "EndOfHeader" -> Respond(handler, "end_of_header", <<>>, write_ok)
      [] m.kind = "Header" ->
           Respond(handler, "header", <<m.name, m.value>>, write_ok)
      [] m.kind = "Helo" -> Respond(handler, "helo", <<m.msg>>, write_ok)
      [] m.kind = "MailFrom" ->
           Respond(handler, "mail_from", <<m.sender, m.args>>, write_ok)
      [] m.kind = "OptionNegotiation" ->
           Negotiate(proto, m, write_ok)
      [] m.kind = "QuitCommunication" -> QuitArm
      [] m.kind = "RecipientInformation" ->
           Respond(handler, "recipient", <<m.recipient, m.args>>, write_ok)

\* match MilterMessage::try_from(buffer): a panic of try_from unwinds through
\* handle_message
MatchResult(handler, proto, r, write_ok) ==
    IF r.res = "Panic" THEN [ret |-> "Panic", log |-> <<>>]
    ELSE IF r.res = "Err" THEN Fallback(write_ok)
    ELSE MatchMessage(handler, proto, r.message, write_ok)

handle_message(handler, proto, buffer, write_ok) ==
    MatchResult(handler, proto, try_from(buffer), write_ok)

\* does a call of handle_message write to the stream
WritesOn(r) ==
    \/ r.res = "Err"
    \/ /\ r.res = "Ok"
       /\ r.message.kind \notin {"AbortFilterChecks", "DefineMacros", "QuitCommunication"}

Writes(buffer) == WritesOn(try_from(buffer))

(***************************************************************************)
(* Milter::run and Milter::handle_stream.                                   *)
(***************************************************************************)
Init ==
    /\ \E build \in Builds :
          /\ message_handler = build.handler
          /\ protocol = build.protocol
    /\ pc = "bind"
    /\ run_result = "running"
    /\ conn = 0
    /\ budget = MaxFrames
    /\ sent = <<>>
    /\ wire = <<>>
    /\ collected_bytes = <<>>
    /\ msg_len = 0
    /\ events = <<>>
    /\ stream_result = "none"
    /\ last_end = "none"
    /\ dropped_frames = 0
    /\ input = NoCall
    /\ output = NoCall

\* TcpListener::bind(address)? succeeds
Bind ==
    /\ pc = "bind"
    /\ pc' = "accept"
    /\ UNCHANGED << message_handler, protocol, run_result, conn, budget, sent, wire,
                    collected_bytes, msg_len, events, stream_result, last_end,
                    dropped_frames >>
    /\ UNCHANGED << input, output >>

\* TcpListener::bind(address)? fails: run returns the error
BindError ==
    /\ pc = "bind"
    /\ pc' = "returned"
    /\ run_result' = "Err(bind)"
    /\ UNCHANGED << message_handler, protocol, conn, budget, sent, wire,
                    collected_bytes, msg_len, events, stream_result, last_end,
                    dropped_frames >>
    /\ UNCHANGED << input, output >>

\* a listener that hands out the next stream while handle_stream still reads
\* on the last one
AcceptWhileServing ==
    /\ pc \in {"accept", "read"}
    /\ conn < MaxConns
    /\ \E frames \in UNION { BoundedSeq(v, budget) : v \in Vocabularies } :
          /\ sent' = frames
          /\ wire' = Concat([i \in 1..Len(frames) |-> Frame(frames[i])])
          /\ budget' = budget - Len(frames)
    /\ conn' = conn + 1
    /\ collected_bytes' = <<>>
    /\ msg_len' = 0
    /\ events' = <<>>
    /\ pc' = "read"
    /\ dropped_frames' = 0
    /\ UNCHANGED << message_handler, protocol, run_result, stream_result, last_end >>
    /\ UNCHANGED << input, output >>

\* listener.incoming() yields a stream: handle_stream starts on it
Accept ==
    /\ pc = "accept"
    /\ conn < MaxConns
    /\ \E frames \in UNION { BoundedSeq(v, budget) : v \in Vocabularies } :
          /\ sent' = frames
          /\ wire' = Concat([i \in 1..Len(frames) |-> Frame(frames[i])])
          /\ budget' = budget - Len(frames)
    /\ conn' = conn + 1
    /\ collected_bytes' = <<>>
    /\ msg_len' = 0
    /\ events' = <<>>
    /\ pc' = "read"
    /\ dropped_frames' = 0
    /\ UNCHANGED << message_handler, protocol, run_result, stream_result, last_end >>
    /\ UNCHANGED << input, output >>

\* listener.incoming() yields an error: run returns it
AcceptError ==
    /\ pc = "accept"
    /\ pc' = "returned"
    /\ run_result' = "Err(accept)"
    /\ UNCHANGED << message_handler, protocol, conn, budget, sent, wire,
                    collected_bytes, msg_len, events, stream_result, last_end,
                    dropped_frames >>
    /\ UNCHANGED << input, output >>

\* does the frame loop run (again) on this buffer: the prefix is read when
\* four bytes are there, and else msg_len keeps its value
\* a msg_len that is never read from the prefix
LoopLenUnread(buffer, len) == 0

LoopLen(buffer, len) ==
    IF Len(buffer) >= u32_size THEN U32FromBe(Slice(buffer, 0, u32_size)) ELSE len

\* a loop condition that wants one byte more than the frame has
LoopRunsStrict(buffer, len) == Len(buffer) > u32_size + LoopLen(buffer, len)

LoopRuns(buffer, len) == Len(buffer) >= u32_size + LoopLen(buffer, len)

\* stream.read returns Ok(len), len > 0: the bytes are collected, and the
\* frame loop is entered when the buffer holds a whole frame
Read ==
    /\ pc = "read"
    /\ \E len \in 1..Min(Len(wire), BufferSize) :
          LET buffer == collected_bytes \o Slice(wire, 0, len)
          IN  /\ wire' = SliceFrom(wire, len)
              /\ collected_bytes' = buffer
              /\ IF Len(buffer) >= u32_size /\ LoopRuns(buffer, 0)
                 THEN pc' = "dispatch" /\ msg_len' = LoopLen(buffer, 0)
                 ELSE pc' = "read" /\ msg_len' = 0
    /\ UNCHANGED << message_handler, protocol, run_result, conn, budget, sent, events,
                    stream_result, last_end, dropped_frames >>
    /\ UNCHANGED << input, output >>

\* handle_stream returns: its stream, its buffer and msg_len are dropped
RECURSIVE WholeFrames(_)
WholeFrames(buffer) ==
    IF Len(buffer) >= u32_size
       /\ Len(buffer) >= u32_size + U32FromBe(Slice(buffer, 0, u32_size))
    THEN 1 + WholeFrames(SliceFrom(buffer, u32_size + U32FromBe(Slice(buffer, 0, u32_size))))
    ELSE 0

Dropped(buffer) ==
    /\ wire' = <<>>
    /\ collected_bytes' = <<>>
    /\ msg_len' = 0
    /\ dropped_frames' = WholeFrames(buffer)

\* an end of the stream that handle_stream reports as an error
ReadEofFails ==
    /\ pc = "read"
    /\ pc' = "accept"
    /\ stream_result' = "Err"
    /\ last_end' = "eof"
    /\ Dropped(collected_bytes)
    /\ UNCHANGED << message_handler, protocol, run_result, conn, budget, sent, events >>
    /\ UNCHANGED << input, output >>

\* stream.read returns Ok(0): handle_stream returns Ok(())
ReadEof ==
    /\ pc = "read"
    /\ pc' = "accept"
    /\ stream_result' = "Ok"
    /\ last_end' = "eof"
    /\ Dropped(collected_bytes)
    /\ UNCHANGED << message_handler, protocol, run_result, conn, budget, sent, events >>
    /\ UNCHANGED << input, output >>

\* stream.read returns Err(e): the error is printed, the loop is left and
\* handle_stream returns Ok(())
ReadError ==
    /\ pc = "read"
    /\ pc' = "accept"
    /\ stream_result' = "Ok"
    /\ last_end' = "read_error"
    /\ Dropped(collected_bytes)
    /\ UNCHANGED << message_handler, protocol, run_result, conn, budget, sent, events >>
    /\ UNCHANGED << input, output >>

\* one turn of the frame loop: the prefix and the payload are drained,
\* handle_message is called, msg_len is read again
\* what handle_stream does with the result r of handle_message(.., msg), rest
\* being what the drains left in collected_bytes
FrameHandled(msg, rest, r) ==
    /\ events' = events \o <<DispatchEvent(msg)>> \o r.log
    /\ CASE r.ret = "Panic" ->
              /\ pc' = "panicked"
              /\ collected_bytes' = rest
              /\ UNCHANGED << wire, msg_len, run_result, stream_result,
                              last_end, dropped_frames >>
         [] r.ret = "Err" ->
              /\ pc' = "returned"
              /\ run_result' = "Err(handle_stream)"
              /\ stream_result' = "Err"
              /\ last_end' = "write_error"
              /\ Dropped(rest)
         [] r.ret = "Ok(false)" ->
              /\ pc' = "accept"
              /\ stream_result' = "Ok"
              /\ last_end' = "quit"
              /\ Dropped(rest)
              /\ UNCHANGED run_result
         [] r.ret = "Ok(true)" ->
              /\ collected_bytes' = rest
              /\ IF LoopRuns(rest, msg_len)
                 THEN pc' = "dispatch" /\ msg_len' = LoopLen(rest, msg_len)
                 ELSE pc' = "read" /\ msg_len' = 0
              /\ UNCHANGED << wire, run_result, stream_result, last_end,
                              dropped_frames >>

\* a frame loop that takes the step-skip bits an OptionNegotiation frame
\* proposes for the configured ones
HandleFrameAdopts ==
    /\ pc = "dispatch"
    /\ \E write_ok \in
            (IF Writes(Slice(collected_bytes, u32_size, u32_size + msg_len))
             THEN BOOLEAN ELSE {TRUE}) :
          FrameHandled(
              Slice(collected_bytes, u32_size, u32_size + msg_len),
              SliceFrom(collected_bytes, u32_size + msg_len),
              handle_message(message_handler, protocol,
                             Slice(collected_bytes, u32_size, u32_size + msg_len),
                             write_ok))
    /\ protocol' =
          IF Len(collected_bytes) >= u32_size + 13 /\ msg_len = 13
             /\ collected_bytes[u32_size + 1] = Ch.O
          THEN Some(MilterProtocolFrom(Slice(collected_bytes, u32_size + 9, u32_size + 13)))
          ELSE protocol
    /\ UNCHANGED << message_handler, conn, budget, sent >>
    /\ UNCHANGED << input, output >>

HandleFrame ==
    /\ pc = "dispatch"
    /\ \E write_ok \in
            (IF Writes(Slice(collected_bytes, u32_size, u32_size + msg_len))
             THEN BOOLEAN ELSE {TRUE}) :
          FrameHandled(
              Slice(collected_bytes, u32_size, u32_size + msg_len),
              SliceFrom(collected_bytes, u32_size + msg_len),
              handle_message(message_handler, protocol,
                             Slice(collected_bytes, u32_size, u32_size + msg_len),
                             write_ok))
    /\ UNCHANGED << message_handler, protocol, conn, budget, sent >>
    /\ UNCHANGED << input, output >>

Next ==
    \/ Bind
    \/ BindError
    \/ Accept
    \/ AcceptError
    \/ Read
    \/ ReadEof
    \/ ReadError
    \/ HandleFrame

Spec == Init /\ [][Next]_vars

\* run with peers that close their streams: a read on a stream that stays
\* open for ever does not block for ever, it returns 0 bytes
FairSpec == Spec /\ WF_vars(ReadEof)

(***************************************************************************)
(* run with peers that send payloads no arm of try_from takes: payloads     *)
(* without a known identifier, and the field-less commands with bytes       *)
(* behind the tag.                                                          *)
(***************************************************************************)
\* no identifier at all, 'Z', 'z' and a byte behind it, the bytes 255 and 0;
\* and a Helo frame, which decodes
IdentifierFrames ==
    { EmptyPayload, UnknownPayload, <<122, 0>>, <<255>>, <<Ch.NUL>>, HeloPayload }

\* 'A', 'E', 'N' and 'Q' with one byte behind the tag; and a Helo frame
FieldlessFrames ==
    { <<Ch.A, 0>>, <<Ch.E, 120>>, <<Ch.N, 0>>, <<Ch.Q, 0>>, HeloPayload }

StrayVocabularies == { IdentifierFrames, FieldlessFrames }

\* listener.incoming() yields the stream of such a peer
AcceptStray ==
    /\ pc = "accept"
    /\ conn < MaxConns
    /\ \E frames \in UNION { BoundedSeq(v, budget) : v \in StrayVocabularies } :
          /\ sent' = frames
          /\ wire' = Concat([i \in 1..Len(frames) |-> Frame(frames[i])])
          /\ budget' = budget - Len(frames)
    /\ conn' = conn + 1
    /\ collected_bytes' = <<>>
    /\ msg_len' = 0
    /\ events' = <<>>
    /\ pc' = "read"
    /\ dropped_frames' = 0
    /\ UNCHANGED << message_handler, protocol, run_result, stream_result, last_end >>
    /\ UNCHANGED << input, output >>

StrayNext ==
    \/ Bind
    \/ BindError
    \/ AcceptStray
    \/ AcceptError
    \/ Read
    \/ ReadEof
    \/ ReadError
    \/ HandleFrame

StraySpec == Init /\ [][StrayNext]_vars

(***************************************************************************)
(* The functions of the crate called on their own: a call is drawn with    *)
(* its arguments, and the one step of a behaviour applies the function.     *)
(***************************************************************************)
\* an OptionNegotiation payload with the three fields the MTA proposes
OptNegWith(version, actions, proto) ==
    <<Ch.O>> \o U32ToBe(version) \o U32ToBe(actions) \o U32ToBe(proto)

ProposedVersions == {0, 2, 6, 16909060}

ProposedProtocols == {0, 5, 127, 2147483647}

\* what MilterBuilder::set_protocol was given, or None without the call
ConfiguredProtocols ==
    {None} \cup { Some(MilterProtocolFrom(U32ToBe(v))) : v \in {0, 18, 127} }

NegotiationCalls ==
    { [ fn |-> "handle_message", handler |-> VariedHandler, proto |-> proto,
        buffer |-> OptNegWith(v, a, p), write_ok |-> ok ] :
        proto \in ConfiguredProtocols, v \in ProposedVersions,
        a \in ProposedActions, p \in ProposedProtocols, ok \in BOOLEAN }

\* the NUL-terminated fields of a payload: "j" and "v1"
Fields == { <<106>>, <<118, 49>> }

\* the most name/value pairs of a DefineMacros payload
MaxPairs == 2

\* the most arguments of a MailFrom or RecipientInformation payload
MaxArgs == 2

\* every field followed by its NUL
Terminated(fields) == Concat([i \in 1..Len(fields) |-> fields[i] \o <<Ch.NUL>>])

\* 'D', cmdcode, then name NUL value NUL for every pair
MacrosPayloadOf(cmdcode, fields) == <<Ch.D, cmdcode>> \o Terminated(fields)

\* the tag, the first field and its NUL, then every argument and its NUL
ArgsPayloadOf(tag, first, args) == <<tag>> \o Terminated(<<first>> \o args)

PairLists == UNION { [1..(2 * k) -> Fields] : k \in 0..MaxPairs }

ArgLists == UNION { [1..k -> Fields] : k \in 0..MaxArgs }

MacroCalls ==
    { [fn |-> "try_from", value |-> MacrosPayloadOf(cmdcode, fields)] :
        cmdcode \in {Ch.C, Ch.H}, fields \in PairLists }

ArgsCalls ==
    { [fn |-> "try_from", value |-> ArgsPayloadOf(tag, first, args)] :
        tag \in {Ch.M, Ch.R}, first \in Fields, args \in ArgLists }

\* the longest header value drawn letter by letter
MaxText == 4

\* header values over the letters '=', '?' and 'a'
Texts == UNION { [1..n -> {Ch.EQ, Ch.QM, Ch.a}] : n \in 0..MaxText }

\* the encoded word =?charset?encoding?payload?=
Word(charset, encoding, payload) ==
    <<Ch.EQ, Ch.QM>> \o charset \o <<Ch.QM>> \o encoding \o <<Ch.QM>> \o payload
        \o <<Ch.QM, Ch.EQ>>

\* the labels "utf-8" and "latin1", and "x", which is no charset label
KnownLabels == { <<117, 116, 102, 45, 56>>, <<108, 97, 116, 105, 110, 49>> }

UnknownLabels == { <<120>> }

\* base64 of "abc" ("YWJj"), and "a" and "!!!!", which are not base64
GoodBase64 == { <<89, 87, 74, 106>> }

BadBase64 == { <<97>>, <<33, 33, 33, 33>> }

\* encoded words the decoder cannot decode: the label is unknown, or the
\* payload is not base64
BrokenWords ==
    { Word(c, e, v) : c \in UnknownLabels, e \in {<<Ch.B>>, <<Ch.Q>>},
                      v \in GoodBase64 \cup BadBase64 }
    \cup { Word(c, <<Ch.B>>, v) : c \in KnownLabels, v \in BadBase64 }

GoodWords == { Word(c, <<Ch.B>>, v) : c \in KnownLabels, v \in GoodBase64 }

\* the text around an encoded word: none, or "a"
Around == { <<>>, <<Ch.a>> }

DecodeCalls ==
    { [fn |-> "decode", s |-> t] : t \in Texts }
    \cup { [fn |-> "decode", s |-> pre \o w \o suf] :
             pre \in Around, w \in BrokenWords \cup GoodWords, suf \in Around }

\* handlers that return one action from every method, and calls of
\* handle_message on the payloads a handler answers
UniformHandlers == { [m \in ActionMethods |-> a] : a \in AcceptRejectAction }

AnsweredPayloads ==
    { BodyPayload, ConnPayload, EndBodyPayload, EndHeaderPayload, HeaderPayload,
      HeloPayload, MailPayload, RcptPayload }

ResponseCalls ==
    { [ fn |-> "handle_message", handler |-> h, proto |-> None, buffer |-> b,
        write_ok |-> ok ] :
        h \in UniformHandlers, b \in AnsweredPayloads, ok \in BOOLEAN }

\* the most bytes behind the tag of an OptionNegotiation payload
MaxOptionBytes == 14

\* the three fields two MTAs propose: version 2 with every defined bit, and
\* version 01 02 03 04 with an undefined action bit
OptionFields ==
    { U32ToBe(2) \o U32ToBe(63) \o U32ToBe(127),
      U32ToBe(16909060) \o U32ToBe(257) \o U32ToBe(5) }

\* the fields cut short, whole, or followed by bytes of value 0
OptionBodies ==
    { SubSeq(f \o [i \in 1..MaxOptionBytes |-> 0], 1, n) :
        f \in OptionFields, n \in 0..MaxOptionBytes }

OptionCalls ==
    { [fn |-> "try_from", value |-> <<Ch.O>> \o b] : b \in OptionBodies }
    \cup { [ fn |-> "handle_message", handler |-> VariedHandler, proto |-> proto,
             buffer |-> <<Ch.O>> \o b, write_ok |-> ok ] :
             proto \in ConfiguredProtocols, b \in OptionBodies, ok \in BOOLEAN }

\* an odd number of NUL-terminated fields: a name is left without its value
OddLists == UNION { [1..((2 * k) - 1) -> Fields] : k \in 1..MaxPairs }

\* what stands behind the cmdcode of a DefineMacros payload with an odd
\* number of fields: terminated fields, one field without its NUL, a lone
\* NUL; and nothing at all, the payload that ends with its cmdcode
OddRests ==
    { Terminated(fields) : fields \in OddLists } \cup { <<106>>, <<Ch.NUL>>, <<>> }

OddMacroCalls ==
    { [fn |-> "try_from", value |-> <<Ch.D, cmdcode>> \o rest] :
        cmdcode \in {Ch.C, Ch.H}, rest \in OddRests }
    \cup { [ fn |-> "handle_message", handler |-> VariedHandler, proto |-> None,
             buffer |-> <<Ch.D, cmdcode>> \o rest, write_ok |-> ok ] :
             cmdcode \in {Ch.C, Ch.H}, rest \in OddRests, ok \in BOOLEAN }

\* encoded words whose encoding is neither base64 nor quoted-printable: the
\* letters 'x' and '7'
OtherLetterWords ==
    { Word(c, e, v) : c \in KnownLabels \cup UnknownLabels, e \in {<<120>>, <<55>>},
                      v \in GoodBase64 }

OtherLetterCalls ==
    { [fn |-> "decode", s |-> pre \o w \o suf] :
        pre \in Around, w \in OtherLetterWords, suf \in Around }

\* well-formed encoded words and the text each stands for: base64 of "abc"
\* in utf-8 and in latin1, quoted-printable "a_b" ("a b"), and base64 of "a"
\* with its padding, "YQ=="
SpanCases ==
    { [word |-> Word(c, <<Ch.B>>, <<89, 87, 74, 106>>), text |-> <<97, 98, 99>>] :
        c \in KnownLabels }
    \cup { [ word |-> Word(<<117, 116, 102, 45, 56>>, <<Ch.Q>>, <<97, 95, 98>>),
             text |-> <<97, 32, 98>> ],
           [ word |-> Word(<<117, 116, 102, 45, 56>>, <<Ch.B>>, <<89, 81, 61, 61>>),
             text |-> <<97>> ] }

\* the text around the words: none, "a", and a lone "?"
Between == { <<>>, <<Ch.a>>, <<Ch.QM>> }

TwoSpanCalls ==
    { [fn |-> "decode", s |-> pre \o w1.word \o mid \o w2.word \o post] :
        pre \in Between, w1 \in SpanCases, mid \in Between, w2 \in SpanCases,
        post \in Between }

\* the 4 bytes a bit set is parsed from: every value of the lowest byte,
\* below no higher bit, bit 8, and every higher bit up to bit 30
FlagBytes ==
    { high \o <<low>> : high \in { <<0, 0, 0>>, <<0, 0, 1>>, <<127, 255, 255>> },
                        low \in 0..255 }

FlagCalls ==
    { [fn |-> f, val |-> val] : f \in {"MilterActions", "MilterProtocol"},
                                val \in FlagBytes }

\* run is not started: the driver's variables keep these values
Idle ==
    /\ message_handler = DefaultHandler
    /\ protocol = None
    /\ pc = "bind"
    /\ run_result = "running"
    /\ conn = 0
    /\ budget = 0
    /\ sent = <<>>
    /\ wire = <<>>
    /\ collected_bytes = <<>>
    /\ msg_len = 0
    /\ events = <<>>
    /\ stream_result = "none"
    /\ last_end = "none"
    /\ dropped_frames = 0

UnchangedDriver ==
    UNCHANGED << message_handler, protocol, pc, run_result, conn, budget, sent, wire,
                 collected_bytes, msg_len, events, stream_result, last_end,
                 dropped_frames >>

PureInit ==
    /\ Idle
    /\ output = NoCall
    /\ \/ input \in NegotiationCalls
       \/ input \in MacroCalls
       \/ input \in ArgsCalls
       \/ input \in DecodeCalls
       \/ input \in ResponseCalls
       \/ input \in OptionCalls
       \/ input \in OddMacroCalls
       \/ input \in OtherLetterCalls
       \/ input \in TwoSpanCalls
       \/ input \in FlagCalls

\* Milter::handle_message(s, buffer)
CallHandleMessage ==
    /\ input.fn = "handle_message"
    /\ output = NoCall
    /\ output' = [ fn    |-> "handle_message",
                   value |-> handle_message(input.handler, input.proto, input.buffer,
                                            input.write_ok) ]
    /\ UNCHANGED input
    /\ UnchangedDriver

\* MilterMessage::try_from(value)
CallTryFrom ==
    /\ input.fn = "try_from"
    /\ output = NoCall
    /\ output' = [fn |-> "try_from", value |-> try_from(input.value)]
    /\ UNCHANGED input
    /\ UnchangedDriver

\* decode(s)
CallDecode ==
    /\ input.fn = "decode"
    /\ output = NoCall
    /\ output' = [fn |-> "decode", value |-> decode(input.s)]
    /\ UNCHANGED input
    /\ UnchangedDriver

\* MilterActions::from(&val), then Vec::<u8>::from of the result
CallMilterActions ==
    /\ input.fn = "MilterActions"
    /\ output = NoCall
    /\ output' = [ fn    |-> "MilterActions",
                   value |-> MilterActionsFrom(input.val),
                   bytes |-> MilterActionsInto(MilterActionsFrom(input.val)) ]
    /\ UNCHANGED input
    /\ UnchangedDriver

\* MilterProtocol::from(&val), then Vec::<u8>::from of the result
CallMilterProtocol ==
    /\ input.fn = "MilterProtocol"
    /\ output = NoCall
    /\ output' = [ fn    |-> "MilterProtocol",
                   value |-> MilterProtocolFrom(input.val),
                   bytes |-> MilterProtocolInto(MilterProtocolFrom(input.val)) ]
    /\ UNCHANGED input
    /\ UnchangedDriver

PureNext ==
    \/ CallHandleMessage
    \/ CallTryFrom
    \/ CallDecode
    \/ CallMilterActions
    \/ CallMilterProtocol

PureSpec == PureInit /\ [][PureNext]_vars

(***************************************************************************)
(* What the log of a connection shows.                                      *)
(***************************************************************************)
\* how a payload decodes: the kind of the command, "Err" or "Panic"
Kind(payload) ==
    LET r == try_from(payload)
    IN  IF r.res = "Ok" THEN r.message.kind ELSE r.res

DispatchIdx == { i \in 1..Len(events) : events[i].type = "dispatch" }

WriteIdx == { i \in 1..Len(events) : events[i].type = "write" }

\* the payloads handed to handle_message, in order
Dispatched ==
    LET d == SelectSeq(events, LAMBDA e : e.type = "dispatch")
    IN  [i \in 1..Len(d) |-> d[i].data]

\* the events between the i-th event, a dispatch, and the next dispatch
SegmentEnd(i) ==
    IF \E j \in DispatchIdx : j > i
    THEN (CHOOSE j \in DispatchIdx : j > i /\ \A k \in DispatchIdx : k > i => j <= k) - 1
    ELSE Len(events)

Segment(i) == SubSeq(events, i + 1, SegmentEnd(i))

\* the position of x among the members of the set S of numbers
Rank(S, x) == Cardinality({ y \in S : y <= x })

\* the commands the protocol answers with a response frame
ResponseBearing ==
    { "BodyChunk", "ConnectionInformation", "EndOfBody", "EndOfHeader", "Header",
      "Helo", "MailFrom", "RecipientInformation", "OptionNegotiation" }

\* the handler method of a command
HandlerMethod ==
    [ AbortFilterChecks |-> "abort_filter_checks", BodyChunk |-> "body_chunk",
      ConnectionInformation |-> "connection", DefineMacros |-> "define_macros",
      EndOfBody |-> "end_of_body", EndOfHeader |-> "end_of_header",
      Header |-> "header", Helo |-> "helo", MailFrom |-> "mail_from",
      RecipientInformation |-> "recipient" ]

\* the tag byte of an action on the wire
ActionTag ==
    [Accept |-> 97, Continue |-> 99, Discard |-> 100, Reject |-> 114, Tempfail |-> 116]

\* the frame 00 00 00 01 63
ContinueFrame == <<0, 0, 0, 1, 99>>

\* the connection of the log is open: handle_stream is at a read or in the
\* frame loop
ConnectionOpen == pc \in {"read", "dispatch"}

(***************************************************************************)
(* C1.  Framing round trip: once every byte of a connection has been read  *)
(* (no frame decoding to QuitCommunication, no write failing), the payloads *)
(* handed to handle_message are the payloads sent, in order.                *)
(* The claim as stated; a payload on which decoding aborts (C4) stops the   *)
(* dispatch of the frames behind it.                                        *)
(***************************************************************************)
C1_FramingRoundTrip ==
    ( /\ conn >= 1
      /\ wire = <<>>
      /\ pc \in {"read", "panicked"}
      /\ \A i \in 1..Len(sent) : Kind(sent[i]) # "QuitCommunication"
      /\ \A i \in WriteIdx : events[i].ok )
    => Dispatched = sent

(***************************************************************************)
(* C2.  Synchronous request/response: every dispatched frame that decodes   *)
(* to a response-bearing command is followed, before the next dispatch and  *)
(* before the next read, by its handler call (none for OptionNegotiation)   *)
(* and then exactly one write of its response; the i-th write of the        *)
(* connection answers the i-th frame that is due a response.                *)
(***************************************************************************)
\* the dispatches that are due a response: the response-bearing commands and
\* the payloads that fail to decode
RespondingIdx ==
    { i \in DispatchIdx : Kind(events[i].data) \in ResponseBearing \cup {"Err"} }

C2_OneResponsePerCommand ==
    /\ \A i \in DispatchIdx :
          LET k   == Kind(events[i].data)
              seg == Segment(i)
          IN  k \in ResponseBearing =>
                /\ Cardinality({ j \in 1..Len(seg) : seg[j].type = "write" }) = 1
                /\ seg[Len(seg)].type = "write"
                /\ IF k = "OptionNegotiation"
                   THEN /\ Len(seg) = 1
                        /\ Slice(seg[1].data, 0, 5) = <<0, 0, 0, 13, 79>>
                   ELSE /\ Len(seg) = 2
                        /\ seg[1].type = "call"
                        /\ seg[1].data.method = HandlerMethod[k]
                        /\ seg[2].data
                             = <<0, 0, 0, 1, ActionTag[message_handler[HandlerMethod[k]]]>>
    /\ Cardinality(WriteIdx) = Cardinality(RespondingIdx)
    /\ \A w \in WriteIdx :
          \E d \in RespondingIdx :
             /\ Rank(RespondingIdx, d) = Rank(WriteIdx, w)
             /\ d < w
             /\ w <= SegmentEnd(d)

\* two Helo frames that arrived in one read, each answered before the next
\* dispatch, and the driver back at its read
C2_Witness ==
    /\ pc = "read"
    /\ sent = <<HeloPayload, HeloPayload>>
    /\ Len(events) = 6
    /\ events[1].type = "dispatch" /\ events[3].type = "write"
    /\ events[4].type = "dispatch" /\ events[6].type = "write"
    /\ message_handler = VariedHandler
    /\ events[6].data = <<0, 0, 0, 1, 97>>

(***************************************************************************)
(* C3.  Graceful degradation: every dispatched payload that does not decode *)
(* to a command is answered with the Continue frame and nothing else, no    *)
(* handler is called, and the connection goes on.                           *)
(* The claim as stated; decoding aborts on some payloads (C4) and then      *)
(* nothing is written.                                                      *)
(***************************************************************************)
C3_GracefulDegradation ==
    \A i \in DispatchIdx :
       try_from(events[i].data).res # "Ok" =>
          /\ Len(Segment(i)) = 1
          /\ Segment(i)[1].type = "write"
          /\ Segment(i)[1].data = ContinueFrame
          /\ (Segment(i)[1].ok /\ SegmentEnd(i) = Len(events)) =>
                (ConnectionOpen \/ last_end \in {"eof", "read_error"})

(***************************************************************************)
(* C4.  Decoding is total: try_from returns a command or an error value on  *)
(* every payload handed to it, and never aborts.                            *)
(* The claim as stated.                                                     *)
(***************************************************************************)
C4_DecodingTotal ==
    /\ pc # "panicked"
    /\ \A i \in DispatchIdx : try_from(events[i].data).res \in {"Ok", "Err"}

(***************************************************************************)
(* C5.  QuitCommunication closes the session: the dispatch of a frame that  *)
(* decodes to QuitCommunication is the last event of the connection (no     *)
(* response, no handler call, no further dispatch), no read follows, and    *)
(* handle_stream has returned Ok.                                           *)
(***************************************************************************)
C5_QuitCloses ==
    \A i \in DispatchIdx :
       Kind(events[i].data) = "QuitCommunication" =>
          /\ i = Len(events)
          /\ ~ConnectionOpen
          /\ pc # "panicked"
          /\ stream_result = "Ok"
          /\ last_end = "quit"

\* a Quit frame was dispatched while a whole frame waited behind it in the
\* buffer, and that frame was dropped
C5_Witness ==
    /\ pc = "accept"
    /\ last_end = "quit"
    /\ dropped_frames = 1
    /\ sent = <<QuitPayload, HeloPayload>>
    /\ events = <<DispatchEvent(QuitPayload)>>

(***************************************************************************)
(* C6.  AbortFilterChecks and DefineMacros are fire and forget: the         *)
(* dispatch of either is followed by one call of its handler method and by  *)
(* no write, and the connection stays open (it ends later only by the end   *)
(* of the stream or a read error).                                          *)
(***************************************************************************)
C6_FireAndForget ==
    \A i \in DispatchIdx :
       LET k == Kind(events[i].data)
       IN  k \in {"AbortFilterChecks", "DefineMacros"} =>
              /\ Len(Segment(i)) = 1
              /\ Segment(i)[1].type = "call"
              /\ Segment(i)[1].data.method = HandlerMethod[k]
              /\ SegmentEnd(i) = Len(events) =>
                    (ConnectionOpen \/ last_end \in {"eof", "read_error"})

\* both notifications were dispatched, nothing was written, and the driver
\* reads on
C6_Witness ==
    /\ pc = "read"
    /\ sent = <<AbortPayload, MacrosPayload>>
    /\ Len(events) = 4
    /\ events[2].data.method = "abort_filter_checks"
    /\ events[4].data.method = "define_macros"
    /\ WriteIdx = {}

(***************************************************************************)
(* C7.  A read error is returned: when a read on the stream fails,          *)
(* handle_stream returns the error.                                         *)
(* The claim as stated; handle_stream prints the error and returns Ok(()).  *)
(***************************************************************************)
C7_ReadErrorReturned == last_end = "read_error" => stream_result = "Err"

(***************************************************************************)
(* C8.  A transport failure ends only its connection: after a read or       *)
(* write error on a connection, run has not returned because of it and      *)
(* goes on accepting.                                                       *)
(* The claim as stated; a write error is returned by handle_stream and run  *)
(* returns it too.                                                          *)
(***************************************************************************)
C8_FailureEndsOnlyConnection ==
    last_end \in {"read_error", "write_error"} => run_result # "Err(handle_stream)"

(***************************************************************************)
(* C9.  A write error is fatal to the connection: a failed write is the     *)
(* last event of its connection (no further dispatch, no further handler    *)
(* call), no read follows, and handle_stream has returned the error.        *)
(***************************************************************************)
C9_WriteErrorFatal ==
    \A i \in WriteIdx :
       ~events[i].ok =>
          /\ i = Len(events)
          /\ ~ConnectionOpen
          /\ pc # "panicked"
          /\ stream_result = "Err"
          /\ last_end = "write_error"

\* the fallback Continue for an unknown identifier could not be written
\* while a whole frame waited in the buffer
C9_Witness ==
    /\ sent = <<UnknownPayload, HeloPayload>>
    /\ Len(events) = 2
    /\ events[2].type = "write"
    /\ events[2].data = ContinueFrame
    /\ ~events[2].ok
    /\ dropped_frames = 1
    /\ stream_result = "Err"

(***************************************************************************)
(* C10.  The action bits of the negotiation reply.                          *)
(***************************************************************************)
\* the dispatches of OptionNegotiation frames whose reply is in the log
NegotiatedIdx ==
    { i \in DispatchIdx :
        Kind(events[i].data) = "OptionNegotiation" /\ Len(Segment(i)) = 1 }

\* the action bits the peer proposed in an OptionNegotiation payload
ProposedBits(payload) == U32FromBe(Slice(payload, 5, 9))

\* two OptionNegotiation payloads that differ in nothing but the action bits
SameButActions(p, q) == Slice(p, 0, 5) = Slice(q, 0, 5) /\ Slice(p, 9, 13) = Slice(q, 9, 13)

\* C10 as stated: the reply does not depend on the proposed action bits, so
\* two OptionNegotiation frames that differ only in them get the same reply
C10_ReplyIgnoresProposal ==
    \A i, j \in NegotiatedIdx :
       SameButActions(events[i].data, events[j].data) =>
          Segment(i)[1].data = Segment(j)[1].data

\* C10 as amended: the action bits of the reply are the proposed action
\* bits restricted to the six defined bits, whatever the filter configures;
\* two OptionNegotiation frames that differ only in the action bits get the
\* same reply exactly when their proposals agree in those six bits
C10_ReplyEchoesProposal ==
    /\ \A i \in NegotiatedIdx :
          Slice(Segment(i)[1].data, 9, 13) = U32ToBe(ProposedBits(events[i].data) % 64)
    /\ \A i, j \in NegotiatedIdx :
          SameButActions(events[i].data, events[j].data) =>
             ( Segment(i)[1].data = Segment(j)[1].data
               <=> ProposedBits(events[i].data) % 64 = ProposedBits(events[j].data) % 64 )

\* proposals 63 and 1 were both answered on one connection, with replies
\* that differ
C10_Witness ==
    /\ sent = <<OptNegPayload(63), OptNegPayload(1)>>
    /\ Len(events) = 4
    /\ events[2].type = "write" /\ events[4].type = "write"
    /\ events[2].data # events[4].data
    /\ pc = "read"

(***************************************************************************)
(* C11.  In the reply to an OptionNegotiation the 4 version bytes are the   *)
(* version bytes of the request, and the 4 step-skip bytes encode the       *)
(* protocol configured through the builder, whatever step-skip bits the     *)
(* MTA proposed: bit i of the field is the i-th configured flag and no      *)
(* other bit is set; without a configured protocol the field is 0.          *)
(***************************************************************************)
\* a call of handle_message on an OptionNegotiation payload has returned
Negotiated ==
    /\ input.fn = "handle_message"
    /\ output # NoCall
    /\ Len(input.buffer) = 13
    /\ input.buffer[1] = 79

\* the bytes handle_message wrote for the call
ReplyWritten == output.value.log[Len(output.value.log)].data

C11_VersionAndStepSkips ==
    Negotiated =>
       LET field == U32FromBe(Slice(ReplyWritten, 13, 17))
           own   == input.proto.value
       IN  /\ Slice(ReplyWritten, 5, 9) = Slice(input.buffer, 1, 5)
           /\ IF input.proto.some
              THEN /\ field < 128
                   /\ Bit(field, 0) = own.no_connect
                   /\ Bit(field, 1) = own.no_helo
                   /\ Bit(field, 2) = own.no_mail
                   /\ Bit(field, 3) = own.no_recipient
                   /\ Bit(field, 4) = own.no_body
                   /\ Bit(field, 5) = own.no_header
                   /\ Bit(field, 6) = own.no_eoh
              ELSE field = 0

\* a filter configured to skip helo and body answered version 01 02 03 04 and
\* the proposal of all seven step-skip bits with its own two bits
C11_Witness ==
    /\ Negotiated
    /\ input.proto = Some(MilterProtocolFrom(<<0, 0, 0, 18>>))
    /\ Slice(input.buffer, 1, 5) = <<1, 2, 3, 4>>
    /\ Slice(input.buffer, 9, 13) = <<0, 0, 0, 127>>
    /\ Slice(ReplyWritten, 5, 9) = <<1, 2, 3, 4>>
    /\ Slice(ReplyWritten, 13, 17) = <<0, 0, 0, 18>>

(***************************************************************************)
(* C12.  Every OptionNegotiation payload that decodes is answered by        *)
(* handle_message itself: exactly one write, of 17 bytes that start with    *)
(* 00 00 00 0D 4F, whatever the version, the action bits and the step-skip  *)
(* bits are, and no handler method is called.                               *)
(***************************************************************************)
C12_SeventeenByteReply ==
    Negotiated =>
       /\ Len(output.value.log) = 1
       /\ output.value.log[1].type = "write"
       /\ Len(ReplyWritten) = 17
       /\ Slice(ReplyWritten, 0, 5) = <<0, 0, 0, 13, 79>>
       /\ output.value.ret = IF input.write_ok THEN "Ok(true)" ELSE "Err"

\* a proposal with every bit of both bit sets was answered in 17 bytes
C12_Witness ==
    /\ Negotiated
    /\ Slice(input.buffer, 5, 13) = <<0, 0, 1, 1, 127, 255, 255, 255>>
    /\ input.write_ok
    /\ Len(ReplyWritten) = 17
    /\ output.value.ret = "Ok(true)"

(***************************************************************************)
(* C13.  Dispatch in arrival order, without phase gating: the handler       *)
(* methods called on a connection are, in order, the methods of the         *)
(* dispatched payloads that decode to a command other than                  *)
(* OptionNegotiation and QuitCommunication, whether or not an               *)
(* OptionNegotiation was dispatched before them.                            *)
(***************************************************************************)
\* the methods called on the connection, in order
MethodsCalled ==
    LET c == SelectSeq(events, LAMBDA e : e.type = "call")
    IN  [i \in 1..Len(c) |-> c[i].data.method]

\* the methods of the dispatched payloads that decode to a handler's command
MethodsDue ==
    LET d == SelectSeq(Dispatched, LAMBDA p : Kind(p) \in DOMAIN HandlerMethod)
    IN  [i \in 1..Len(d) |-> HandlerMethod[Kind(d[i])]]

C13_ArrivalOrderDispatch == MethodsCalled = MethodsDue

\* MailFrom before Helo, and no OptionNegotiation at all: both were handed
\* to the handler in that order
C13_Witness ==
    /\ sent = <<MailPayload, HeloPayload>>
    /\ MethodsCalled = <<"mail_from", "helo">>
    /\ \A i \in DispatchIdx : Kind(events[i].data) # "OptionNegotiation"
    /\ pc = "read"

(***************************************************************************)
(* C14.  No partial frame is dispatched: in every step that hands a         *)
(* payload to handle_message the buffer held at least 4 + L bytes, L being  *)
(* the big-endian value of its first 4 bytes, and the payload is the L      *)
(* bytes behind that prefix; and while handle_stream runs, bytes leave the  *)
(* front of the buffer only as one whole frame, prefix and payload          *)
(* together.                                                                *)
(***************************************************************************)
IsPrefix(a, b) == Len(a) <= Len(b) /\ SubSeq(b, 1, Len(a)) = a

\* the buffer starts with a whole frame
FrameAvailable ==
    /\ Len(collected_bytes) >= 4
    /\ Len(collected_bytes) >= 4 + U32FromBe(Slice(collected_bytes, 0, 4))

C14_NoPartialFrame ==
    [][ /\ Len(events') > Len(events) =>
              /\ FrameAvailable
              /\ events'[Len(events) + 1]
                   = DispatchEvent(Slice(collected_bytes, 4,
                                         4 + U32FromBe(Slice(collected_bytes, 0, 4))))
        /\ ( /\ pc \in {"read", "dispatch"}
             /\ pc' \in {"read", "dispatch", "panicked"}
             /\ ~IsPrefix(collected_bytes, collected_bytes') ) =>
              /\ FrameAvailable
              /\ collected_bytes'
                   = SliceFrom(collected_bytes,
                               4 + U32FromBe(Slice(collected_bytes, 0, 4)))
      ]_vars

\* the first of two Helo frames was dispatched and answered while the buffer
\* holds the prefix and one payload byte of the second, which waits
C14_Witness ==
    /\ sent = <<HeloPayload, HeloPayload>>
    /\ pc = "read"
    /\ Len(collected_bytes) = 5
    /\ wire # <<>>
    /\ Dispatched = <<HeloPayload>>

(***************************************************************************)
(* C15.  DefineMacros decodes its pairs in order: a payload 'D', cmdcode,   *)
(* then name_1 NUL value_1 NUL ... name_k NUL value_k NUL (k >= 0) decodes  *)
(* to DefineMacros with that cmdcode and exactly k macros, the i-th being   *)
(* (name_i, value_i).                                                       *)
(* The claim as stated; the decoder looks the value of a name up at the     *)
(* name's own field index, so only the first pair is found where it is.     *)
(***************************************************************************)
C15_MacrosInOrder ==
    \A cmdcode \in {Ch.C, Ch.H}, fields \in PairLists :
       ( /\ input.fn = "try_from"
         /\ output # NoCall
         /\ input.value = MacrosPayloadOf(cmdcode, fields) ) =>
          /\ output.value.res = "Ok"
          /\ output.value.message.kind = "DefineMacros"
          /\ output.value.message.cmdcode = cmdcode
          /\ output.value.message.macros
               = [i \in 1..(Len(fields) \div 2) |->
                    [name |-> fields[(2 * i) - 1], value |-> fields[2 * i]]]

(***************************************************************************)
(* C16.  MailFrom and RecipientInformation argument lists: a payload made   *)
(* of the tag, the first field and its NUL, then k arguments each with its  *)
(* NUL (k >= 0) decodes to that first field and to exactly those k          *)
(* arguments in order; with k = 0 the argument list is empty.               *)
(* The claim as stated; the split on NUL yields one more, empty, field      *)
(* behind the last NUL, and it is taken for an argument.                    *)
(***************************************************************************)
C16_ArgumentLists ==
    \A tag \in {Ch.M, Ch.R}, first \in Fields, args \in ArgLists :
       ( /\ input.fn = "try_from"
         /\ output # NoCall
         /\ input.value = ArgsPayloadOf(tag, first, args) ) =>
          /\ output.value.res = "Ok"
          /\ IF tag = Ch.M
             THEN /\ output.value.message.kind = "MailFrom"
                  /\ output.value.message.sender = first
             ELSE /\ output.value.message.kind = "RecipientInformation"
                  /\ output.value.message.recipient = first
          /\ output.value.message.args = args

(***************************************************************************)
(* C17.  Header value decoding is the identity on text without an encoded  *)
(* word: an input that holds no complete span =?charset?encoding?payload?=  *)
(* is returned unchanged, a lone "=?" or a lone "?=" included.              *)
(* The claim as stated; the decoder splits on "=?" and never puts it back,  *)
(* and it drops what stands before a lone "?=".                             *)
(***************************************************************************)
\* s holds "=?", then three parts separated by two '?', then "?="
HasSpan(s) ==
    \E i \in 0..Len(s), j \in 0..Len(s) :
       /\ MatchAt(s, <<61, 63>>, i)
       /\ MatchAt(s, <<63, 61>>, j)
       /\ j >= i + 4
       /\ Cardinality({ k \in (i + 3)..j : s[k] = 63 }) = 2

C17_IdentityWithoutWord ==
    ( /\ input.fn = "decode"
      /\ output # NoCall
      /\ ~HasSpan(input.s) ) =>
       output.value = input.s

(***************************************************************************)
(* C18.  Header decode fallback: an input that holds an encoded word whose  *)
(* charset label cannot be resolved, or whose payload is not base64, is     *)
(* returned whole and unchanged, delimiters included, nothing dropped and   *)
(* nothing doubled.                                                         *)
(* The claim as stated; the "=?" in front of the word is lost, the text     *)
(* behind a word with an unknown label is appended twice, and a word whose  *)
(* payload is not base64 loses its "?=" too.                                *)
(***************************************************************************)
C18_FallbackUnchanged ==
    \A pre \in Around, w \in BrokenWords, suf \in Around :
       ( /\ input.fn = "decode"
         /\ output # NoCall
         /\ input.s = pre \o w \o suf ) =>
          output.value = input.s

(***************************************************************************)
(* C19.  The response written for the action a handler method returned is  *)
(* the 5-byte frame 00 00 00 01 and the tag of that action (Accept 'a',     *)
(* Continue 'c', Discard 'd', Reject 'r', Tempfail 't'); the tag read back  *)
(* from the wire names the action the handler returned, distinct actions    *)
(* giving distinct frames.                                                  *)
(***************************************************************************)
\* a call of handle_message on a payload that a handler method answers has
\* returned
Answered ==
    /\ input.fn = "handle_message"
    /\ output # NoCall
    /\ Kind(input.buffer) \in ResponseBearing \ {"OptionNegotiation"}

\* the action the handler returns for the payload of the call
ActionReturned == input.handler[HandlerMethod[Kind(input.buffer)]]

\* the action a tag byte on the wire stands for
ActionOfTag(tag) ==
    CASE tag = 97  -> "Accept"
      [] tag = 99  -> "Continue"
      [] tag = 100 -> "Discard"
      [] tag = 114 -> "Reject"
      [] tag = 116 -> "Tempfail"
      [] OTHER     -> "none"

C19_ResponseTags ==
    /\ Answered =>
          /\ Len(ReplyWritten) = 5
          /\ Slice(ReplyWritten, 0, 4) = <<0, 0, 0, 1>>
          /\ ReplyWritten[5] = ActionTag[ActionReturned]
          /\ ActionOfTag(ReplyWritten[5]) = ActionReturned
    /\ \A a, b \in AcceptRejectAction :
          a # b => ResponseFromAction(a) # ResponseFromAction(b)

\* the header method returned Discard and 00 00 00 01 64 was written
C19_Witness ==
    /\ Answered
    /\ input.buffer = HeaderPayload
    /\ ActionReturned = "Discard"
    /\ ReplyWritten = <<0, 0, 0, 1, 100>>
    /\ input.write_ok

(***************************************************************************)
(* C20.  The end of the stream ends the connection: when handle_stream is   *)
(* at its read and the peer, having sent all it sends, closes the stream,   *)
(* the connection loop comes to its end; the read that returns 0 bytes      *)
(* makes handle_stream return Ok(()), and the bytes of an incomplete frame  *)
(* left in the buffer are not dispatched and get no response.               *)
(***************************************************************************)
C20_EndOfStream ==
    /\ (pc = "read" /\ wire = <<>>) ~> ~ConnectionOpen
    /\ [][ (pc = "read" /\ pc' = "accept" /\ last_end' = "eof") =>
              /\ stream_result' = "Ok"
              /\ events' = events
              /\ ~FrameAvailable
         ]_vars

\* the stream ended while the buffer held the prefix and one payload byte of
\* a second frame: handle_stream returned Ok(()) and only the first frame
\* was dispatched
C20_Witness ==
    /\ pc = "accept"
    /\ last_end = "eof"
    /\ stream_result = "Ok"
    /\ sent = <<HeloPayload, HeloPayload>>
    /\ Dispatched = <<HeloPayload>>
    /\ Len(events) = 3
    /\ dropped_frames = 0

(***************************************************************************)
(* C21.  Connections are served one after another: a stream is accepted     *)
(* only while no connection loop runs, the loop of the connection before it *)
(* having returned; and every handler call and every write is made by the   *)
(* frame loop of the one connection that is open, so the events of two      *)
(* connections never interleave.                                            *)
(***************************************************************************)
C21_OneAfterAnother ==
    [][ /\ conn' # conn =>
              /\ conn' = conn + 1
              /\ pc = "accept"
              /\ ~ConnectionOpen
              /\ conn >= 1 => stream_result = "Ok" /\ last_end # "none"
              /\ events' = <<>>
        /\ (events' # events /\ conn' = conn) =>
              /\ conn >= 1
              /\ pc = "dispatch"
              /\ IsPrefix(events, events')
      ]_vars

\* the second connection is being served, its Helo answered, after the first
\* one ended at the end of its stream with one frame dispatched
C21_Witness ==
    /\ conn = 2
    /\ budget = 0
    /\ sent = <<HeloPayload>>
    /\ last_end = "eof"
    /\ Len(events) = 3
    /\ events[3].type = "write"
    /\ pc = "read"

(***************************************************************************)
(* C22.  OptionNegotiation takes exactly 12 bytes behind the tag: 'O' and   *)
(* 12 bytes decode to the version in bytes 0..3, the action bits in bytes   *)
(* 4..7 and the step-skip bits in bytes 8..11, each big-endian; 'O' and any *)
(* other number of bytes does not decode, and handle_message answers it     *)
(* with one write of the 5-byte Continue frame, no negotiation reply and no *)
(* handler call.                                                            *)
(***************************************************************************)
\* a call of try_from on a payload with the tag 'O' has returned
OptionDecoded ==
    /\ input.fn = "try_from"
    /\ output # NoCall
    /\ input.value # <<>>
    /\ input.value[1] = 79

\* a call of handle_message on a payload with the tag 'O' has returned
OptionHandled ==
    /\ input.fn = "handle_message"
    /\ output # NoCall
    /\ input.buffer # <<>>
    /\ input.buffer[1] = 79

C22_TwelveByteOption ==
    /\ OptionDecoded =>
          IF Len(input.value) = 13
          THEN /\ output.value.res = "Ok"
               /\ output.value.message.kind = "OptionNegotiation"
               /\ output.value.message.version = U32FromBe(SubSeq(input.value, 2, 5))
               /\ output.value.message.actions
                    = MilterActionsFrom(SubSeq(input.value, 6, 9))
               /\ output.value.message.protocol
                    = MilterProtocolFrom(SubSeq(input.value, 10, 13))
          ELSE output.value.res = "Err"
    /\ (OptionHandled /\ Len(input.buffer) # 13) =>
          /\ Len(output.value.log) = 1
          /\ output.value.log[1].type = "write"
          /\ output.value.log[1].data = ContinueFrame
          /\ output.value.ret = IF input.write_ok THEN "Ok(true)" ELSE "Err"

\* 'O' and 13 bytes, one more than the three fields take, was answered with
\* the Continue frame
C22_Witness ==
    /\ OptionHandled
    /\ Len(input.buffer) = 14
    /\ SubSeq(input.buffer, 2, 13) = <<0, 0, 0, 2, 0, 0, 0, 63, 0, 0, 0, 127>>
    /\ input.write_ok
    /\ output.value.log = <<WriteEvent(<<0, 0, 0, 1, 99>>, TRUE)>>
    /\ output.value.ret = "Ok(true)"

(***************************************************************************)
(* C23.  No whole frame waits for a later read: whenever handle_stream is   *)
(* at its read, the buffer has fewer than 4 bytes, or fewer than 4 + L      *)
(* bytes, L being the big-endian value of its first 4 bytes; and whenever   *)
(* the frame loop is about to cut a frame, msg_len is the value of the 4    *)
(* bytes now at the head of the buffer and the buffer holds that frame.     *)
(***************************************************************************)
C23_NoFrameWaits ==
    /\ pc = "read" => ~FrameAvailable
    /\ pc = "dispatch" =>
          /\ FrameAvailable
          /\ msg_len = U32FromBe(SubSeq(collected_bytes, 1, 4))

\* two Helo frames: the first was dispatched, three bytes of the second's
\* prefix sit in the buffer, and the driver reads on for the rest
C23_Witness ==
    /\ pc = "read"
    /\ sent = <<HeloPayload, HeloPayload>>
    /\ Dispatched = <<HeloPayload>>
    /\ collected_bytes = <<0, 0, 0>>
    /\ Len(wire) = 4

(***************************************************************************)
(* C24.  A DefineMacros payload with an odd number of NUL-delimited fields  *)
(* behind the cmdcode fails with IncompleteMessage, and handle_message then *)
(* calls no handler method and writes the Continue frame; the payload that  *)
(* is 'D' and the cmdcode alone decodes to DefineMacros with no macro.      *)
(***************************************************************************)
\* the number of NUL-delimited fields of what stands behind the cmdcode, a
\* NUL at the very end closing the last field
FieldCount(rest) ==
    LET nuls == Cardinality({ i \in 1..Len(rest) : rest[i] = 0 })
    IN  IF rest = <<>> THEN 0
        ELSE IF rest[Len(rest)] = 0 THEN nuls
        ELSE nuls + 1

\* the bytes of a payload behind its tag and its cmdcode
BehindCmdcode(payload) == SubSeq(payload, 3, Len(payload))

C24_OddMacroFields ==
    /\ ( /\ input.fn = "try_from"
         /\ output # NoCall
         /\ Len(input.value) >= 2
         /\ input.value[1] = 68 ) =>
          /\ FieldCount(BehindCmdcode(input.value)) % 2 = 1 =>
                output.value = Err(IncompleteMessage)
          /\ Len(input.value) = 2 =>
                output.value
                  = Ok([kind |-> "DefineMacros", cmdcode |-> input.value[2], macros |-> <<>>])
    /\ ( /\ input.fn = "handle_message"
         /\ output # NoCall
         /\ Len(input.buffer) >= 2
         /\ input.buffer[1] = 68 ) =>
          /\ FieldCount(BehindCmdcode(input.buffer)) % 2 = 1 =>
                /\ output.value.log = <<WriteEvent(ContinueFrame, input.write_ok)>>
                /\ output.value.ret = IF input.write_ok THEN "Ok(true)" ELSE "Err"
          /\ Len(input.buffer) = 2 =>
                output.value.log = <<CallEvent("define_macros", <<input.buffer[2], <<>> >>)>>

\* j NUL v1 NUL j NUL, three fields behind the cmdcode: define_macros was not
\* called and the Continue frame was written
C24_Witness ==
    /\ input.fn = "handle_message"
    /\ output # NoCall
    /\ input.buffer = <<68, 67, 106, 0, 118, 49, 0, 106, 0>>
    /\ input.write_ok
    /\ output.value.log = <<WriteEvent(<<0, 0, 0, 1, 99>>, TRUE)>>

(***************************************************************************)
(* C25.  Identifier errors: the empty payload fails to decode with          *)
(* MissingMessageIdentifier, and a payload whose first byte is none of      *)
(* A B C D E H L M N O Q R fails with UnknowMessageIdentifier carrying that *)
(* byte; the dispatch of either is answered with the Continue frame alone,  *)
(* the step that dispatches it takes the 4 prefix bytes and the payload     *)
(* from the buffer, and the frames behind it are dispatched all the same.   *)
(***************************************************************************)
KnownIdentifiers == {65, 66, 67, 68, 69, 72, 76, 77, 78, 79, 81, 82}

\* a payload without a known identifier
NoIdentifier(payload) == payload = <<>> \/ payload[1] \notin KnownIdentifiers

\* the payload the frame loop is about to cut from the buffer
PayloadAtHead ==
    SubSeq(collected_bytes, 5, 4 + U32FromBe(SubSeq(collected_bytes, 1, 4)))

C25_IdentifierErrors ==
    /\ [](\A i \in DispatchIdx :
            LET p == events[i].data
            IN  NoIdentifier(p) =>
                  /\ try_from(p)
                       = IF p = <<>>
                         THEN [res |-> "Err", error |-> [kind |-> "MissingMessageIdentifier"]]
                         ELSE [ res   |-> "Err",
                                error |-> [ kind       |-> "UnknowMessageIdentifier",
                                            identifier |-> p[1] ] ]
                  /\ Len(Segment(i)) = 1
                  /\ Segment(i)[1].type = "write"
                  /\ Segment(i)[1].data = ContinueFrame)
    /\ []( ( /\ pc = "read"
             /\ wire = <<>>
             /\ sent # <<>>
             /\ \A i \in 1..Len(sent) : NoIdentifier(sent[i]) \/ sent[i] = HeloPayload
             /\ \A i \in WriteIdx : events[i].ok )
           => Dispatched = sent )
    /\ [][ ( /\ pc = "dispatch"
             /\ NoIdentifier(PayloadAtHead)
             /\ Len(events') > Len(events) ) =>
              /\ events'[Len(events) + 1] = DispatchEvent(PayloadAtHead)
              /\ Len(events') = Len(events) + 2
              /\ events'[Len(events')].ok =>
                    /\ collected_bytes'
                         = SubSeq(collected_bytes, 5 + Len(PayloadAtHead),
                                  Len(collected_bytes))
                    /\ pc' \in {"read", "dispatch"}
                    /\ pc' = "dispatch" <=> FrameAvailable'
         ]_vars

\* a frame of length 0 and a Helo frame arrived: the first was answered with
\* Continue, and the Helo behind it was dispatched and answered by the handler
C25_Witness ==
    /\ pc = "read"
    /\ wire = <<>>
    /\ sent = <<EmptyPayload, HeloPayload>>
    /\ Dispatched = sent
    /\ Len(events) = 5
    /\ events[2] = WriteEvent(<<0, 0, 0, 1, 99>>, TRUE)
    /\ events[4].type = "call"
    /\ events[4].data.method = "helo"
    /\ events[5].ok

(***************************************************************************)
(* C26.  An encoded word whose encoding letter is none of b, B, q, Q is     *)
(* left untouched: the output holds the source text of the span, "=?" and   *)
(* "?=" included, between the text before it and the text behind it.        *)
(* The claim as stated; with a known charset the decoder puts the payload   *)
(* alone in the place of the span, and with an unknown one it drops the     *)
(* "=?" and appends the text behind the span twice.                         *)
(***************************************************************************)
C26_OtherLetterUntouched ==
    \A pre \in Around, w \in OtherLetterWords, suf \in Around :
       ( /\ input.fn = "decode"
         /\ output # NoCall
         /\ input.s = pre \o w \o suf ) =>
          /\ Find(output.value, w) # -1
          /\ output.value = pre \o w \o suf

(***************************************************************************)
(* C27.  Text around encoded words is preserved: for the input              *)
(* pre, span_1, mid, span_2, post, the spans being well-formed encoded      *)
(* words with a known charset and a payload that decodes, and pre, mid and  *)
(* post holding neither "=?" nor "?=", the output is pre, the text of       *)
(* span_1, mid, the text of span_2, post.                                   *)
(* The claim as stated; a base64 payload that ends with its padding "="     *)
(* makes "=?" with the "?" of the closing delimiter, so the word is cut in  *)
(* two and not decoded, and so does a "?" right behind a word with the "="  *)
(* of its closing delimiter.                                                *)
(***************************************************************************)
C27_TextAroundWords ==
    \A pre \in Between, w1 \in SpanCases, mid \in Between, w2 \in SpanCases,
       post \in Between :
       ( /\ input.fn = "decode"
         /\ output # NoCall
         /\ input.s = pre \o w1.word \o mid \o w2.word \o post ) =>
          output.value = pre \o w1.text \o mid \o w2.text \o post

(***************************************************************************)
(* C28.  Bit-flag parsing is positional and truncating: of the big-endian   *)
(* value v of the 4 bytes, MilterActions takes add_headers from bit 0,      *)
(* change_body 1, add_recipients 2, remove_recipients 3, change_headers 4,  *)
(* quarantine 5, and MilterProtocol takes no_connect from bit 0, no_helo 1, *)
(* no_mail 2, no_recipient 3, no_body 4, no_header 5, no_eoh 6; the higher  *)
(* bits change nothing and are not rejected, and the parsed value           *)
(* serializes to v AND 0x3F, respectively v AND 0x7F.                       *)
(***************************************************************************)
\* the big-endian value of the 4 bytes of the call
FlagValue ==
    (input.val[1] * 16777216) + (input.val[2] * 65536) + (input.val[3] * 256)
        + input.val[4]

\* is bit i of the value of the call set
FlagBit(i) == (FlagValue \div (2 ^ i)) % 2 = 1

C28_TruncatingFlags ==
    /\ (input.fn = "MilterActions" /\ output # NoCall) =>
          /\ output.value
               = [ add_headers       |-> FlagBit(0),
                   change_body       |-> FlagBit(1),
                   add_recipients    |-> FlagBit(2),
                   remove_recipients |-> FlagBit(3),
                   change_headers    |-> FlagBit(4),
                   quarantine        |-> FlagBit(5) ]
          /\ output.bytes = <<0, 0, 0, FlagValue % 64>>
    /\ (input.fn = "MilterProtocol" /\ output # NoCall) =>
          /\ output.value
               = [ no_connect   |-> FlagBit(0),
                   no_helo      |-> FlagBit(1),
                   no_mail      |-> FlagBit(2),
                   no_recipient |-> FlagBit(3),
                   no_body      |-> FlagBit(4),
                   no_header    |-> FlagBit(5),
                   no_eoh       |-> FlagBit(6) ]
          /\ output.bytes = <<0, 0, 0, FlagValue % 128>>

\* 00 00 01 24, bits 2, 5 and 8: add_recipients and quarantine were parsed,
\* and the value went back on the wire without bit 8
C28_Witness ==
    /\ input.fn = "MilterActions"
    /\ output # NoCall
    /\ input.val = <<0, 0, 1, 36>>
    /\ output.value.add_recipients
    /\ output.value.quarantine
    /\ ~output.value.remove_recipients
    /\ output.bytes = <<0, 0, 0, 36>>

(***************************************************************************)
(* C29.  The field-less commands match one-byte payloads only: a payload    *)
(* that starts with 'A', 'E', 'N' or 'Q' and has a byte behind it does not  *)
(* decode, no handler method is called for it and the Continue frame is     *)
(* written; after a 'Q' with bytes behind it the connection stays open, and *)
(* the frames behind such a payload are dispatched.                         *)
(***************************************************************************)
\* a field-less tag with at least one byte behind it
FieldlessWithBytes(payload) ==
    Len(payload) >= 2 /\ payload[1] \in {65, 69, 78, 81}

C29_FieldlessExact ==
    /\ \A i \in DispatchIdx :
          FieldlessWithBytes(events[i].data) =>
             /\ try_from(events[i].data).res = "Err"
             /\ Len(Segment(i)) = 1
             /\ Segment(i)[1].type = "write"
             /\ Segment(i)[1].data = ContinueFrame
             /\ (Segment(i)[1].ok /\ SegmentEnd(i) = Len(events)) =>
                   (ConnectionOpen \/ last_end \in {"eof", "read_error"})
    /\ ( /\ pc = "read"
         /\ wire = <<>>
         /\ \E i \in 1..Len(sent) : FieldlessWithBytes(sent[i])
         /\ \A i \in 1..Len(sent) : FieldlessWithBytes(sent[i]) \/ sent[i] = HeloPayload
         /\ \A i \in WriteIdx : events[i].ok )
       => Dispatched = sent

\* 'Q' with a byte behind it, then Helo: Continue was written for the first,
\* the connection stayed open, and the Helo was handed to the handler
C29_Witness ==
    /\ pc = "read"
    /\ wire = <<>>
    /\ sent = << <<81, 0>>, HeloPayload >>
    /\ Dispatched = sent
    /\ Len(events) = 5
    /\ events[2] = WriteEvent(<<0, 0, 0, 1, 99>>, TRUE)
    /\ events[4].type = "call"
    /\ events[4].data.method = "helo"

(***************************************************************************)
(* C30.  Negotiation has no effect on later dispatch: no step changes the   *)
(* configured step-skip bits, so OptionNegotiation frames with the same     *)
(* payload get the same reply; and what is called and written for any other *)
(* frame is what a driver without a configured protocol calls and writes    *)
(* for it, whatever is configured and whatever was negotiated before: a     *)
(* Helo frame is handed to helo and answered when skip-helo is configured.  *)
(***************************************************************************)
\* did the write that answers the i-th event, a dispatch, succeed
WriteOk(i) ==
    \A j \in 1..Len(Segment(i)) : Segment(i)[j].type = "write" => Segment(i)[j].ok

C30_NegotiationInert ==
    /\ [][protocol' = protocol]_vars
    /\ [](\A i, j \in NegotiatedIdx :
            events[i].data = events[j].data =>
               Segment(i)[1].data = Segment(j)[1].data)
    /\ [](\A i \in DispatchIdx :
            Kind(events[i].data) # "OptionNegotiation" =>
               Segment(i)
                 = MatchResult(message_handler, None, try_from(events[i].data),
                               WriteOk(i)).log)
    /\ [](\A i \in DispatchIdx :
            ( /\ events[i].data = HeloPayload
              /\ protocol.some
              /\ protocol.value.no_helo ) =>
               /\ Len(Segment(i)) = 2
               /\ Segment(i)[1] = CallEvent("helo", <<<<104>>>>)
               /\ Segment(i)[2].data = <<0, 0, 0, 1, ActionTag[message_handler.helo]>>)

\* a filter configured to skip helo answered an OptionNegotiation with its
\* own step-skip bits, and the Helo frame behind it was handed to helo and
\* answered with the handler's Accept
C30_Witness ==
    /\ pc = "read"
    /\ protocol.some
    /\ protocol.value.no_helo
    /\ sent = <<OptNegPayload(63), HeloPayload>>
    /\ Len(events) = 5
    /\ SubSeq(events[2].data, 14, 17) = <<0, 0, 0, 18>>
    /\ events[4] = CallEvent("helo", <<<<104>>>>)
    /\ events[5] = WriteEvent(<<0, 0, 0, 1, 97>>, TRUE)

====
